---- MODULE Spec2Model ----
(***************************************************************************)
(* Label memory, similarity index and three-tier classification of the     *)
(* Gmail labeler (backend/memory_store.py, backend/agent.py,               *)
(* backend/gmail_client.py).                                               *)
(*                                                                         *)
(* Abstractions, all stated where they are made:                           *)
(*  - an embedding is a 2-dimensional integer vector of Euclidean norm 5   *)
(*    (a unit vector scaled to integers), or the zero vector; scores are   *)
(*    compared exactly (cross-multiplied), never rounded;                  *)
(*  - the sentence encoder is a fixed deterministic function of the text;  *)
(*  - a Python exception is an outcome ("raised") of the operator that     *)
(*    models the function, together with the writes committed before it.   *)
(***************************************************************************)
EXTENDS Integers, Sequences, FiniteSets, TLC

VARIABLES
    labeled,        \* table labeled_emails, rows in rowid order
    rejected,       \* table rejected_labels, rows in id (insertion) order
    index,          \* MemoryStore.index: the vectors held by the faiss index
    ids,            \* MemoryStore.ids: message ids aligned with index
    gmail_labels,   \* the mail provider's user labels, in list_labels() order
    last            \* the last operation: its name, inputs and outcome

vars == <<labeled, rejected, index, ids, gmail_labels, last>>

----------------------------------------------------------------------------
(* Values *)

\* Python's None
None == "<None>"

\* `if x` on an optional string: None and "" are falsy
Truthy(x) == x # None /\ x # ""

MsgIds == {"m1", "m2", "m3"}

\* The messages the mail provider holds, as _to_slim_message returns them.
Mail ==
    [m \in MsgIds |->
        CASE m = "m1" -> [id |-> "m1", subject |-> "invoice", from |-> "billing", snippet |-> "pay now"]
          [] m = "m2" -> [id |-> "m2", subject |-> "invoice reminder", from |-> "billing", snippet |-> ""]
          [] m = "m3" -> [id |-> "m3", subject |-> "party", from |-> None, snippet |-> "join us"]]

Zero == <<0, 0>>

Dot(u, v) == u[1] * v[1] + u[2] * v[2]

Norm2(u) == Dot(u, u)

\* " \n ".join([x for x in [subject, sender, snippet] if x]): the non-empty
\* fields in order (the separator does not occur in a field)
Joined(subject, sender, snippet) ==
    LET keep(x) == Truthy(x)
    IN  SelectSeq(<<subject, sender, snippet>>, keep)

\* The sentence encoder on a non-empty text: a fixed unit vector per text,
\* here decided by the first field of the text.
Encode(text) ==
    CASE text[1] = "invoice" -> <<5, 0>>
      [] text[1] = "invoice reminder" -> <<4, 3>>
      [] text[1] = "party" -> <<-5, 0>>
      [] OTHER -> <<0, 5>>

\* MemoryStore._embed: empty text is the zero vector, any other text a unit
\* vector
Embed(text) == IF text = <<>> THEN Zero ELSE Encode(text)

RowEmbed(r) == Embed(Joined(r.subject, r.sender, r.snippet))

MsgEmbed(msg) == Embed(Joined(msg.subject, msg.from, msg.snippet))

\* The fallback of MemoryStore._embed, taken when the sentence encoder is
\* not loaded or raises.

\* the seeds the interpreter can draw for the hashing of strings when a
\* process starts
HashSeeds == 0..7

\* a number per text, decided by the first field of the text
TextCode(text) ==
    CASE text[1] = "invoice" -> 11
      [] text[1] = "invoice reminder" -> 23
      [] text[1] = "party" -> 37
      [] OTHER -> 41

\* abs(hash(text)) % (2**32): the hash of a string is keyed by the seed of
\* the process. The 32 bits are cut down to 16 here; only whether two
\* results are equal is used.
StrHash(text, seed) == ((TextCode(text) + 1) * (seed + 3) * 40503) % 65536

\* the unit vectors the generator can give
UnitVectors == <<<<5, 0>>, <<4, 3>>, <<3, 4>>, <<0, 5>>, <<-3, 4>>, <<-4, 3>>, <<-5, 0>>>>

\* np.random.default_rng(s).normal(size=dim), divided by its norm: a unit
\* vector decided by s
RngUnitVector(s) == UnitVectors[(s % Len(UnitVectors)) + 1]

\* MemoryStore._embed with self.model None, in a process of hash seed seed
FallbackEmbed(text, seed) ==
    IF text = <<>> THEN Zero ELSE RngUnitVector(StrHash(text, seed))

----------------------------------------------------------------------------
(* Sequences *)

RECURSIVE SeqToSet(_)
SeqToSet(s) == IF s = <<>> THEN {} ELSE {Head(s)} \cup SeqToSet(Tail(s))

\* position of the row of message id m in table t, 0 when there is none
RowPos(t, m) ==
    IF \E i \in 1..Len(t) : t[i].message_id = m
    THEN CHOOSE i \in 1..Len(t) : t[i].message_id = m
    ELSE 0

RemoveAt(t, i) == SubSeq(t, 1, i - 1) \o SubSeq(t, i + 1, Len(t))

----------------------------------------------------------------------------
(* memory_store.py: the tables *)

\* LabeledEmail / a row of labeled_emails
Row(m, subject, sender, snippet, label, accepted) ==
    [message_id |-> m, subject |-> subject, sender |-> sender,
     snippet |-> snippet, applied_label |-> label, accepted |-> accepted]

\* INSERT ... ON CONFLICT(message_id) DO UPDATE SET ...: the row of that id
\* is overwritten in place, a new id gets a new row
UpsertRow_Duplicate(t, email) == Append(t, email)

UpsertRow(t, email) ==
    LET p == RowPos(t, email.message_id)
    IN  IF p > 0 THEN [t EXCEPT ![p] = email] ELSE Append(t, email)

\* INSERT OR REPLACE: the row of that id is deleted and the new row is
\* inserted with a new rowid
ReplaceRow(t, email) ==
    LET p == RowPos(t, email.message_id)
    IN  Append(IF p > 0 THEN RemoveAt(t, p) ELSE t, email)

IsAccepted(r) == r.accepted

\* SELECT ... FROM labeled_emails WHERE accepted=1
AcceptedRows(t) == SelectSeq(t, IsAccepted)

AcceptedIds(t) == {r.message_id : r \in SeqToSet(AcceptedRows(t))}

\* MemoryStore._rebuild_index: with no accepted row the index is emptied and
\* self.ids is left as it was; otherwise ids and vectors are rebuilt from the
\* accepted rows
RebuildIndex_AllRows(t, oldIds) ==
    IF t = <<>>
    THEN [index |-> <<>>, ids |-> oldIds]
    ELSE [index |-> [i \in 1..Len(t) |-> RowEmbed(t[i])],
          ids |-> [i \in 1..Len(t) |-> t[i].message_id]]

RebuildIndex(t, oldIds) ==
    LET rows == AcceptedRows(t)
    IN  IF rows = <<>>
        THEN [index |-> <<>>, ids |-> oldIds]
        ELSE [index |-> [i \in 1..Len(rows) |-> RowEmbed(rows[i])],
              ids |-> [i \in 1..Len(rows) |-> rows[i].message_id]]

\* memory_store.py has no module-level name `logger` (only self.logger), so
\* the calls logger.info(...) of mark_email_processed, store_rejected_label
\* and get_rejected_labels_for_similar_emails raise NameError when reached.
ModuleLoggerDefined == FALSE

\* MemoryStore.upsert_labeled_email: write, commit, rebuild the index
UpsertLabeledEmail_NoRebuild(t, oldIndex, oldIds, email) ==
    [labeled |-> UpsertRow(t, email), index |-> oldIndex, ids |-> oldIds,
     raised |-> FALSE]

UpsertLabeledEmail(t, oldIndex, oldIds, email) ==
    LET t2 == UpsertRow(t, email)
        ix == RebuildIndex(t2, oldIds)
    IN  [labeled |-> t2, index |-> ix.index, ids |-> ix.ids, raised |-> FALSE]

\* MemoryStore.mark_email_processed: INSERT OR REPLACE of a row without text,
\* commit, then the log call; the index is not touched
MarkEmailProcessed(t, m, label, accepted) ==
    [labeled |-> ReplaceRow(t, Row(m, None, None, None, label, accepted)),
     raised |-> ~ModuleLoggerDefined]

\* a row of rejected_labels (id and created_at are assigned by the table)
RejectedRow(m, subject, sender, snippet, label) ==
    [message_id |-> m, subject |-> subject, sender |-> sender,
     snippet |-> snippet, rejected_label |-> label]

\* id INTEGER PRIMARY KEY AUTOINCREMENT: one more than the largest id the
\* table has held; no row is ever deleted, so one more than the row count
NextRejectedId(rej) == Len(rej) + 1

\* MemoryStore.store_rejected_label: INSERT, commit, then the log call
StoreRejectedLabel_OnePerMessage(rej, m, subject, sender, snippet, label) ==
    LET other(r) == r.message_id # m
    IN  [rejected |-> Append(SelectSeq(rej, other),
                             [id |-> NextRejectedId(rej)] @@
                             RejectedRow(m, subject, sender, snippet, label)),
         raised |-> ~ModuleLoggerDefined]

StoreRejectedLabel(rej, m, subject, sender, snippet, label) ==
    [rejected |-> Append(rej, [id |-> NextRejectedId(rej)] @@
                              RejectedRow(m, subject, sender, snippet, label)),
     raised |-> ~ModuleLoggerDefined]

\* MemoryStore.get_processed_email_ids
GetProcessedEmailIds(t) == {r.message_id : r \in SeqToSet(t)}

\* MemoryStore.get_label_for_message
GetLabelForMessage(t, m) ==
    LET p == RowPos(t, m) IN IF p > 0 THEN t[p].applied_label ELSE None

----------------------------------------------------------------------------
(* memory_store.py: queries *)

Min(a, b) == IF a < b THEN a ELSE b

Max(a, b) == IF a > b THEN a ELSE b

\* the position in S with the largest inner product with q; among equal
\* products the lowest position
BestPos(ix, q, S) ==
    CHOOSE i \in S :
        \A j \in S : \/ Dot(q, ix[i]) > Dot(q, ix[j])
                     \/ (Dot(q, ix[i]) = Dot(q, ix[j]) /\ i <= j)

\* index.search(q, n): the n positions of largest inner product, descending
RECURSIVE Search(_, _, _, _)
Search(ix, q, S, n) ==
    IF n = 0 \/ S = {}
    THEN <<>>
    ELSE LET b == BestPos(ix, q, S)
         IN  <<b>> \o Search(ix, q, S \ {b}, n - 1)

\* MemoryStore.similar: top k (message_id, score); a hit whose position has
\* no entry in self.ids is dropped
Similar(ix, idList, q, k) ==
    IF Len(ix) = 0
    THEN <<>>
    ELSE LET hits == Search(ix, q, 1..Len(ix), Min(k, Max(1, Len(ix))))
             known(i) == i <= Len(idList) /\ Truthy(idList[i])
             kept == SelectSeq(hits, known)
         IN  [n \in 1..Len(kept) |->
                 [message_id |-> idList[kept[n]], score |-> Dot(q, ix[kept[n]])]]

\* the order in which SQLite visits the values of message_id IN (...): the
\* order of the primary-key index
IdOrder == <<"m1", "m2", "m3">>

\* MemoryStore.get_messages_by_ids: the rows whose id is in the list
GetMessagesByIds(t, idList) ==
    LET wanted == {idList[i] : i \in 1..Len(idList)}
        found(m) == m \in wanted /\ RowPos(t, m) > 0
        hit == SelectSeq(IdOrder, found)
    IN  [n \in 1..Len(hit) |-> t[RowPos(t, hit[n])]]

\* the weighted sum of the embeddings of the rows bearing a label: weight 5
\* for accepted rows, 1 for the others
RECURSIVE WeightedSum(_, _)
WeightedSum(t, label) ==
    IF t = <<>>
    THEN Zero
    ELSE LET r == Head(t)
             rest == WeightedSum(Tail(t), label)
             w == IF r.accepted THEN 5 ELSE 1
             e == RowEmbed(r)
         IN  IF r.applied_label = label
             THEN <<rest[1] + w * e[1], rest[2] + w * e[2]>>
             ELSE rest

Abs(x) == IF x < 0 THEN -x ELSE x

RECURSIVE Gcd(_, _)
Gcd(a, b) == IF b = 0 THEN a ELSE Gcd(b, a % b)

\* the shortest integer vector along v (v itself when v is the zero vector)
Direction(v) ==
    LET g == Gcd(Abs(v[1]), Abs(v[2]))
    IN  IF g = 0 THEN v ELSE <<v[1] \div g, v[2] \div g>>

\* MemoryStore.get_label_centroids: label -> centroid, for the labels that
\* have a row. The centroid is the weighted mean divided by its norm; it is
\* kept here as an integer vector along it (the zero vector when the sum
\* vanishes, as x / 1e-8 is).
GetLabelCentroids_Unweighted(t) ==
    LET flat == [i \in 1..Len(t) |-> [t[i] EXCEPT !.accepted = FALSE]]
    IN  [l \in {r.applied_label : r \in SeqToSet(t)} |-> Direction(WeightedSum(flat, l))]

GetLabelCentroids(t) ==
    [l \in {r.applied_label : r \in SeqToSet(t)} |-> Direction(WeightedSum(t, l))]

\* default of similarity_threshold, in hundredths
SimilarityThreshold == 70

\* np.dot(a, b) / (norm(a) * norm(b)) >= thr/100; with a zero vector the
\* quotient is nan and the comparison is false
CosineAtLeast(a, b, thr) ==
    /\ Norm2(a) > 0
    /\ Norm2(b) > 0
    /\ Dot(a, b) >= 0
    /\ Dot(a, b) * Dot(a, b) * 10000 >= thr * thr * Norm2(a) * Norm2(b)

RejectedEmbed(r) == Embed(Joined(r.subject, r.sender, r.snippet))

\* the labels the loop of get_rejected_labels_for_similar_emails collects:
\* the rejected_label of each record similar to the message
SimilarRejectedLabels(rej, subject, sender, snippet, thr) ==
    LET cur == Embed(Joined(subject, sender, snippet))
    IN  {r.rejected_label :
            r \in {x \in SeqToSet(rej) : CosineAtLeast(cur, RejectedEmbed(x), thr)}}

\* MemoryStore.get_rejected_labels_for_similar_emails: collecting a label is
\* followed by a log call, so with a similar record present the call raises
GetRejectedLabels_NeverSimilar(rej, subject, sender, snippet, thr) ==
    [raised |-> FALSE, value |-> {}]

GetRejectedLabels_Logged(rej, subject, sender, snippet, thr) ==
    [raised |-> FALSE,
     value |-> SimilarRejectedLabels(rej, subject, sender, snippet, thr)]

GetRejectedLabelsForSimilarEmails(rej, subject, sender, snippet, thr) ==
    LET found == SimilarRejectedLabels(rej, subject, sender, snippet, thr)
    IN  IF found # {} /\ ~ModuleLoggerDefined
        THEN [raised |-> TRUE, value |-> {}]
        ELSE [raised |-> FALSE, value |-> found]

----------------------------------------------------------------------------
(* agent.py: the three tiers *)

\* a / sqrt(b) >= c / sqrt(d), for b > 0 and d > 0
RatioGE(a, b, c, d) ==
    IF a >= 0
    THEN c <= 0 \/ a * a * d >= c * c * b
    ELSE c < 0 /\ a * a * d <= c * c * b

\* float(np.dot(q, c)) for the message vector q and the centroid along wm,
\* as the pair (num, den2) standing for num / sqrt(den2); 0 when either
\* vector is the zero vector
CentroidScore(q, wm) ==
    IF Norm2(q) = 0 \/ Norm2(wm) = 0
    THEN [num |-> 0, den2 |-> 1]
    ELSE [num |-> Dot(Direction(q), wm), den2 |-> Norm2(Direction(q)) * Norm2(wm)]

ScoreGE(x, y) == RatioGE(x.num, x.den2, y.num, y.den2)

\* score01 = (score + 1) / 2 >= threshold, the threshold in hundredths
MeetsThreshold_Strict(x, threshold) ==
    ~RatioGE(2 * threshold - 100, 10000, x.num, x.den2)

MeetsThreshold(x, threshold) ==
    RatioGE(x.num, x.den2, 2 * threshold - 100, 10000)

FirstMax_Unstable(cands, scores) ==
    LET M == {i \in 1..Len(cands) :
                \A j \in 1..Len(cands) : ScoreGE(scores[cands[i]], scores[cands[j]])}
    IN  IF last.op = "repeat"
        THEN cands[CHOOSE i \in M : \A j \in M : i >= j]
        ELSE cands[CHOOSE i \in M : \A j \in M : i <= j]

\* max(score_map.items(), key=lambda kv: kv[1])[0]: the first label, in
\* insertion order, whose score no other label exceeds
FirstMax(cands, scores) ==
    cands[CHOOSE i \in 1..Len(cands) :
            /\ \A j \in 1..Len(cands) : ScoreGE(scores[cands[i]], scores[cands[j]])
            /\ \A j \in 1..(i - 1) : ~ScoreGE(scores[cands[j]], scores[cands[i]])]

\* node_classify.centroid_scoring: (best label at or above the threshold, or
\* None); labels rejected for similar messages are skipped
CentroidScoring(t, rej, msg, labels, threshold) ==
    LET centroids == GetLabelCentroids(t)
        rl == GetRejectedLabelsForSimilarEmails(rej, msg.subject, msg.from,
                                                msg.snippet, SimilarityThreshold)
        q == MsgEmbed(msg)
        scored(l) == l \notin rl.value /\ l \in DOMAIN centroids
        cands == SelectSeq(labels, scored)
        score_map == [l \in SeqToSet(cands) |-> CentroidScore(q, centroids[l])]
    IN  IF DOMAIN centroids = {}
        THEN [raised |-> FALSE, best |-> None]
        ELSE IF rl.raised
        THEN [raised |-> TRUE, best |-> None]
        ELSE IF cands = <<>>
        THEN [raised |-> FALSE, best |-> None]
        ELSE LET b == FirstMax(cands, score_map)
             IN  [raised |-> FALSE,
                  best |-> IF MeetsThreshold(score_map[b], threshold) THEN b ELSE None]

\* _classify_single_email.centroid_scoring: the same scoring without the
\* rejected-label lookup
CentroidScoringSingle(t, msg, labels, threshold) ==
    LET centroids == GetLabelCentroids(t)
        q == MsgEmbed(msg)
        scored(l) == l \in DOMAIN centroids
        cands == SelectSeq(labels, scored)
        score_map == [l \in SeqToSet(cands) |-> CentroidScore(q, centroids[l])]
    IN  IF DOMAIN centroids = {} \/ cands = <<>>
        THEN None
        ELSE LET b == FirstMax(cands, score_map)
             IN  IF MeetsThreshold(score_map[b], threshold) THEN b ELSE None

\* the number of examples bearing a label
Count(examples, label) ==
    Cardinality({i \in 1..Len(examples) : examples[i].applied_label = label})

MajorityLabelFromSimilar_First(examples) ==
    LET P == {i \in 1..Len(examples) : Truthy(examples[i].applied_label)}
    IN  IF P = {}
        THEN None
        ELSE examples[CHOOSE i \in P : \A j \in P : i <= j].applied_label

\* majority_label_from_similar: the label of highest count; among equal
\* counts the one met first in the examples
MajorityLabelFromSimilar(examples) ==
    LET labelled(i) == Truthy(examples[i].applied_label)
        P == {i \in 1..Len(examples) : labelled(i)}
    IN  IF P = {}
        THEN None
        ELSE examples[CHOOSE i \in P :
                /\ \A j \in P : Count(examples, examples[i].applied_label)
                                  >= Count(examples, examples[j].applied_label)
                /\ \A j \in P : j < i =>
                      Count(examples, examples[j].applied_label)
                        < Count(examples, examples[i].applied_label)].applied_label

\* The generative collaborator's reply, by what the parsing makes of it:
\*   "raise"   ollama_chat raises
\*   "empty"   the content is empty
\*   "json"    a JSON object with a non-empty "label" field
\*   "line"    not JSON, with a line `label: <label>`
\*   "garbage" neither
Reply(kind, label) == [kind |-> kind, label |-> label]

ParseReply_LineOnly(reply) ==
    IF reply.kind = "line" THEN reply.label ELSE None

ParseReply_Default(reply) ==
    IF reply.kind \in {"json", "line"} THEN reply.label ELSE "Uncategorized"

\* the label extracted from a reply, None when there is none
ParseReply(reply) ==
    IF reply.kind \in {"json", "line"} THEN reply.label ELSE None

\* a suggestion: the message (by its id; slim when the dict holds the id
\* only), the label and the tier it came from
NoSuggestion == [suggested_label |-> None, source |-> "none", id |-> None, slim |-> FALSE]

Suggestion(msg, label, source) ==
    [suggested_label |-> label, source |-> source, id |-> msg.id, slim |-> FALSE]

\* what classifying one message did: the suggestion (or NoSuggestion), whether
\* the call raised, and which collaborators were called
Outcome(sug, raised, similarCalled, llmCalled) ==
    [suggestion |-> sug, raised |-> raised, similar_called |-> similarCalled,
     llm_called |-> llmCalled]

\* k of memory.similar(..., k=5)
K == 5

\* tiers 2 and 3 of node_classify and _classify_single_email
LowerTiers_Eager(t, ix, idList, msg, labels, reply) ==
    LET examples == GetMessagesByIds(t, [n \in 1..Len(Similar(ix, idList, MsgEmbed(msg), K)) |->
                                            Similar(ix, idList, MsgEmbed(msg), K)[n].message_id])
        maj == MajorityLabelFromSimilar(examples)
        parsed == ParseReply(reply)
    IN  IF maj # None /\ maj \in SeqToSet(labels)
        THEN Outcome(Suggestion(msg, maj, "memory_similar"), FALSE, TRUE, TRUE)
        ELSE IF Truthy(parsed)
        THEN Outcome(Suggestion(msg, parsed, "llm"), FALSE, TRUE, TRUE)
        ELSE Outcome(NoSuggestion, FALSE, TRUE, TRUE)

LowerTiers_AnyLabel(t, ix, idList, msg, labels, reply) ==
    LET hits == Similar(ix, idList, MsgEmbed(msg), K)
        examples == GetMessagesByIds(t, [n \in 1..Len(hits) |-> hits[n].message_id])
        maj == MajorityLabelFromSimilar(examples)
        parsed == ParseReply(reply)
    IN  IF maj # None
        THEN Outcome(Suggestion(msg, maj, "memory_similar"), FALSE, TRUE, FALSE)
        ELSE IF Truthy(parsed)
        THEN Outcome(Suggestion(msg, parsed, "llm"), FALSE, TRUE, TRUE)
        ELSE Outcome(NoSuggestion, FALSE, TRUE, TRUE)

LowerTiers_FatalReply(t, ix, idList, msg, labels, reply) ==
    LET hits == Similar(ix, idList, MsgEmbed(msg), K)
        examples == GetMessagesByIds(t, [n \in 1..Len(hits) |-> hits[n].message_id])
        maj == MajorityLabelFromSimilar(examples)
        parsed == ParseReply(reply)
    IN  IF maj # None /\ maj \in SeqToSet(labels)
        THEN Outcome(Suggestion(msg, maj, "memory_similar"), FALSE, TRUE, FALSE)
        ELSE IF Truthy(parsed)
        THEN Outcome(Suggestion(msg, parsed, "llm"), FALSE, TRUE, TRUE)
        ELSE Outcome(NoSuggestion, reply.kind = "raise", TRUE, TRUE)

LowerTiers(t, ix, idList, msg, labels, reply) ==
    LET hits == Similar(ix, idList, MsgEmbed(msg), K)
        examples == GetMessagesByIds(t, [n \in 1..Len(hits) |-> hits[n].message_id])
        maj == MajorityLabelFromSimilar(examples)
        parsed == ParseReply(reply)
    IN  IF maj # None /\ maj \in SeqToSet(labels)
        THEN Outcome(Suggestion(msg, maj, "memory_similar"), FALSE, TRUE, FALSE)
        ELSE IF Truthy(parsed)
        THEN Outcome(Suggestion(msg, parsed, "llm"), FALSE, TRUE, TRUE)
        ELSE Outcome(NoSuggestion, FALSE, TRUE, TRUE)

\* the body of node_classify's loop for one message
ClassifyMessage(t, rej, ix, idList, msg, labels, threshold, reply) ==
    LET cs == CentroidScoring(t, rej, msg, labels, threshold)
    IN  IF cs.raised
        THEN Outcome(NoSuggestion, TRUE, FALSE, FALSE)
        ELSE IF cs.best # None
        THEN Outcome(Suggestion(msg, cs.best, "centroid"), FALSE, FALSE, FALSE)
        ELSE LowerTiers(t, ix, idList, msg, labels, reply)

\* _classify_single_email
ClassifySingleEmail(t, ix, idList, msg, labels, threshold, reply) ==
    LET best == CentroidScoringSingle(t, msg, labels, threshold)
    IN  IF best # None
        THEN Outcome(Suggestion(msg, best, "embedding"), FALSE, FALSE, FALSE)
        ELSE LowerTiers(t, ix, idList, msg, labels, reply)

\* node_classify's loop over state["messages"] from message n on: acc holds
\* the outcomes and the suggestions so far. A raise ends the node, and the
\* suggestions collected so far are lost with it.
RECURSIVE ClassifyFrom(_, _, _, _, _, _, _, _, _, _)
ClassifyFrom(t, rej, ix, idList, labels, batch, threshold, replies, n, acc) ==
    IF n > Len(batch)
    THEN acc
    ELSE LET o == ClassifyMessage(t, rej, ix, idList, Mail[batch[n]], labels,
                                  threshold, replies[n])
         IN  IF o.raised
             THEN [raised |-> TRUE, trace |-> Append(acc.trace, o), suggestions |-> <<>>]
             ELSE ClassifyFrom(t, rej, ix, idList, labels, batch, threshold, replies, n + 1,
                     [raised |-> FALSE, trace |-> Append(acc.trace, o),
                      suggestions |-> IF o.suggestion = NoSuggestion
                                      THEN acc.suggestions
                                      ELSE Append(acc.suggestions, o.suggestion)])

\* node_classify
NodeClassify(t, rej, ix, idList, labels, batch, threshold, replies) ==
    ClassifyFrom(t, rej, ix, idList, labels, batch, threshold, replies, 1,
                 [raised |-> FALSE, trace |-> <<>>, suggestions |-> <<>>])

\* score01 > 0.0, the start value of best_score in the rejection-aware
\* resolver's loop
Positive(x) == ~RatioGE(-1, 1, x.num, x.den2)

\* _classify_single_email_with_rejected.centroid_scoring: the loop keeps the
\* first label, in the order of the labels, among those of highest score,
\* when that score is positive and at or above the threshold. Every label
\* with a centroid is scored; the rejected suggestions are not looked at.
CentroidScoringWithRejected(t, msg, labels, threshold) ==
    LET centroids == GetLabelCentroids(t)
        q == MsgEmbed(msg)
        scored(l) == l \in DOMAIN centroids
        cands == SelectSeq(labels, scored)
        score_map == [l \in SeqToSet(cands) |-> CentroidScore(q, centroids[l])]
    IN  IF DOMAIN centroids = {} \/ cands = <<>>
        THEN None
        ELSE LET b == FirstMax(cands, score_map)
             IN  IF Positive(score_map[b]) /\ MeetsThreshold(score_map[b], threshold)
                 THEN b
                 ELSE None

\* json.loads(content) followed by result.get("suggested_label", ""): a
\* reply of kind "json" stands for an object whose "suggested_label" is
\* reply.label; any other content makes json.loads raise
ParsesAsJson(reply) == reply.kind = "json"

\* what the rejection-aware resolver did: the suggestion (or NoSuggestion)
\* and the number of calls of the generative collaborator
Resolved(sug, llmCalls) == [suggestion |-> sug, llm_calls |-> llmCalls]

\* a generative tier that asks again whenever the first answer gave no
\* usable label, and a third time when the second answer is rejected too
GenerativeWithRejected_RetryAny(msg, rejectedSuggestions, reply, retry) ==
    IF ParsesAsJson(reply) /\ Truthy(reply.label) /\ reply.label \notin rejectedSuggestions
    THEN Resolved(Suggestion(msg, reply.label, "llm"), 1)
    ELSE IF ParsesAsJson(retry) /\ Truthy(retry.label) /\ retry.label \notin rejectedSuggestions
    THEN Resolved(Suggestion(msg, retry.label, "llm"), 2)
    ELSE Resolved(NoSuggestion, 3)

\* the generative tier of _classify_single_email_with_rejected: reply
\* answers the first prompt, retry the prompt with force_different
GenerativeWithRejected(msg, rejectedSuggestions, reply, retry) ==
    IF ~ParsesAsJson(reply)
    THEN Resolved(NoSuggestion, 1)
    ELSE IF reply.label \notin rejectedSuggestions
    THEN IF Truthy(reply.label)
         THEN Resolved(Suggestion(msg, reply.label, "llm"), 1)
         ELSE Resolved(NoSuggestion, 1)
    ELSE IF ~ParsesAsJson(retry)
    THEN Resolved(NoSuggestion, 2)
    ELSE IF Truthy(retry.label)
    THEN Resolved(Suggestion(msg, retry.label, "llm"), 2)
    ELSE Resolved(NoSuggestion, 2)

\* _classify_single_email_with_rejected
ClassifySingleEmailWithRejected(t, msg, labels, rejected_suggestions, threshold, reply, retry) ==
    LET best == CentroidScoringWithRejected(t, msg, labels, threshold)
        memory_label == GetLabelForMessage(t, msg.id)
    IN  IF Truthy(best) /\ best \notin rejected_suggestions
        THEN Resolved(Suggestion(msg, best, "centroid"), 0)
        ELSE IF Truthy(memory_label) /\ memory_label \notin rejected_suggestions
        THEN Resolved(Suggestion(msg, memory_label, "memory"), 0)
        ELSE GenerativeWithRejected(msg, rejected_suggestions, reply, retry)

\* classify_emails_streaming's loop from message n on. fails[n] says whether
\* a call of the store raises while message n is classified; the loop's
\* `except Exception` logs whatever _classify_single_email raises and goes
\* on with the next message, so the generator itself never raises.
RECURSIVE StreamFrom(_, _, _, _, _, _, _, _, _, _)
StreamFrom(t, ix, idList, labels, batch, threshold, replies, fails, n, acc) ==
    IF n > Len(batch)
    THEN acc
    ELSE LET o == IF fails[n]
                  THEN Outcome(NoSuggestion, TRUE, FALSE, FALSE)
                  ELSE ClassifySingleEmail(t, ix, idList, Mail[batch[n]], labels,
                                           threshold, replies[n])
         IN  StreamFrom(t, ix, idList, labels, batch, threshold, replies, fails, n + 1,
                 [raised |-> FALSE, trace |-> Append(acc.trace, o),
                  suggestions |-> IF o.suggestion = NoSuggestion
                                  THEN acc.suggestions
                                  ELSE Append(acc.suggestions, o.suggestion)])

\* classify_emails_streaming: the suggestions it yields, in order
ClassifyEmailsStreaming(t, ix, idList, labels, batch, threshold, replies, fails) ==
    StreamFrom(t, ix, idList, labels, batch, threshold, replies, fails, 1,
               [raised |-> FALSE, trace |-> <<>>, suggestions |-> <<>>])

\* the provider's own labels, which _classify_single_email_with_context
\* leaves out
SystemLabels ==
    {"INBOX", "SENT", "DRAFT", "SPAM", "TRASH", "UNREAD", "CATEGORY_PERSONAL",
     "CATEGORY_SOCIAL", "CATEGORY_PROMOTIONS", "CATEGORY_UPDATES", "CATEGORY_FORUMS",
     "STARRED", "IMPORTANT"}

\* parse_llm_response: the "suggested_label" of a JSON object (reply.label
\* of a reply of kind "json"), None when it is empty or the content is not
\* JSON; there is no line scan
ParseLlmResponse(reply) ==
    IF reply.kind = "json" /\ Truthy(reply.label) THEN reply.label ELSE None

\* _classify_single_email_with_context: no tier but the generative one; the
\* suggestion is the dict parse_llm_response built, which has no "message"
ClassifySingleEmailWithContext(msg, labels, reply) ==
    LET custom(l) == l \notin SystemLabels
        parsed == ParseLlmResponse(reply)
    IN  IF SelectSeq(labels, custom) = <<>>
        THEN Resolved(NoSuggestion, 0)
        ELSE IF reply.kind = "raise" \/ parsed = None
        THEN Resolved(NoSuggestion, 1)
        ELSE Resolved([suggested_label |-> parsed, source |-> "llm_with_context",
                       id |-> None, slim |-> FALSE], 1)

\* a resolver that forgets the similarity index while it classifies
StoreCallsOfResolvers_DropIndex(t, rej, ix, idList) ==
    [labeled |-> t, rejected |-> rej, index |-> <<>>, ids |-> <<>>]

\* the store as the resolvers leave it. The calls they make on it are
\* get_label_centroids, get_rejected_labels_for_similar_emails, embed_text,
\* similar, get_messages_by_ids and get_label_for_message: each is a SELECT
\* or a search, none commits or rebuilds
StoreCallsOfResolvers(t, rej, ix, idList) ==
    [labeled |-> t, rejected |-> rej, index |-> ix, ids |-> idList]

----------------------------------------------------------------------------
(* gmail_client.py: the mail provider *)

\* the id the provider gives the label of a name
LabelId(name) == <<"Label", name>>

\* ensure_label's fallback id, "FALLBACK_" + name
FallbackId(name) == <<"FALLBACK", name>>

\* The labels applied to messages at the provider are not read back by the
\* program; the calls of apply_label and their results are kept instead.
\* What the provider does during one pass: which calls succeed
Net(ensureOk, applyOk, getOk) ==
    [ensure_ok |-> ensureOk, apply_ok |-> applyOk, get_ok |-> getOk]

\* GmailClient.list_labels: id_by_name of the provider's labels
IdByName(names) == [n \in SeqToSet(names) |-> LabelId(n)]

\* GmailClient.ensure_label: the id of the label of that name, created when
\* the provider has none; the fallback id when the provider fails
EnsureLabel(names, name, net) ==
    IF ~net.ensure_ok
    THEN [labels |-> names, id |-> FallbackId(name)]
    ELSE IF name \in SeqToSet(names)
    THEN [labels |-> names, id |-> LabelId(name)]
    ELSE [labels |-> Append(names, name), id |-> LabelId(name)]

\* GmailClient.apply_label: True when the provider added the label to the
\* message, False when the call failed (as it does for an id the provider
\* does not know)
ApplyLabel(m, labelId, net) ==
    [id |-> m, label_id |-> labelId,
     ok |-> net.apply_ok /\ labelId = LabelId(labelId[2])]

\* GmailClient.get_message_by_id: the message, or {"id": msg_id} on failure.
\* A key that is absent reads as None through msg.get(key) and as the default
\* through msg.get(key, default).
SlimMessage(m) == [id |-> m, subject |-> None, from |-> None, snippet |-> None, slim |-> TRUE]

FullMessage(m) ==
    [id |-> m, subject |-> Mail[m].subject, from |-> Mail[m].from,
     snippet |-> Mail[m].snippet, slim |-> FALSE]

GetMessageById(m, net) == IF net.get_ok THEN FullMessage(m) ELSE SlimMessage(m)

\* msg.get(key, ""): the default only when the key is absent
GetOrEmpty(msg, value) == IF msg.slim THEN "" ELSE value

----------------------------------------------------------------------------
(* agent.py: feedback ingestion *)

\* approvals.get(msg_id, {}) read through .get("approved", False) and
\* .get("final_label")
Decision(approved, finalLabel) == [approved |-> approved, final_label |-> finalLabel]

DecisionFor(approvals, m) ==
    IF m \in DOMAIN approvals THEN approvals[m] ELSE Decision(FALSE, None)

\* decision.get("final_label") or s.get("suggested_label")
FinalLabel(approvals, sug) ==
    LET d == DecisionFor(approvals, sug.id)
    IN  IF Truthy(d.final_label) THEN d.final_label ELSE sug.suggested_label

\* the body of node_apply_and_update's loop for one suggestion; st is the
\* store, the provider and the local id_by_name
ApplyOne(st, sug, approvals, net) ==
    LET m == sug.id
        approved == DecisionFor(approvals, m).approved
        final == FinalLabel(approvals, sug)
        doApply == approved /\ Truthy(final)
        \* gmail.ensure_label / gmail.apply_label
        known == doApply /\ final \in DOMAIN st.id_by_name
        ens == EnsureLabel(st.gmail_labels, final, net)
        labelId == IF known THEN st.id_by_name[final] ELSE ens.id
        names2 == IF doApply /\ ~known THEN ens.labels ELSE st.gmail_labels
        idmap2 == IF doApply /\ ~known
                  THEN [n \in DOMAIN st.id_by_name \cup {final} |->
                           IF n = final THEN ens.id ELSE st.id_by_name[n]]
                  ELSE st.id_by_name
        \* full message details when only the id is known
        msg == IF sug.slim THEN GetMessageById(m, net) ELSE FullMessage(m)
        \* memory.upsert_labeled_email / memory.store_rejected_label
        up == UpsertLabeledEmail(st.labeled, st.index, st.ids,
                  Row(m, msg.subject, msg.from, msg.snippet, final, TRUE))
        rj == StoreRejectedLabel(st.rejected, m, GetOrEmpty(msg, msg.subject),
                  GetOrEmpty(msg, msg.from), GetOrEmpty(msg, msg.snippet), final)
        doReject == ~approved /\ Truthy(final)
        t2 == IF doApply THEN up.labeled ELSE st.labeled
        \* memory.mark_email_processed, regardless of approval status
        mk == MarkEmailProcessed(t2, m, IF Truthy(final) THEN final ELSE "Uncategorized",
                                 approved)
    IN  [labeled |-> mk.labeled,
         rejected |-> IF doReject THEN rj.rejected ELSE st.rejected,
         index |-> IF doApply THEN up.index ELSE st.index,
         ids |-> IF doApply THEN up.ids ELSE st.ids,
         gmail_labels |-> names2,
         id_by_name |-> idmap2,
         apply_calls |-> IF doApply
                         THEN Append(st.apply_calls, ApplyLabel(m, labelId, net))
                         ELSE st.apply_calls]

\* a loop with one try around all of it: what the handling of a suggestion
\* raises ends the loop, the remaining suggestions are left alone
RECURSIVE ApplyAll_OneTry(_, _, _, _)
ApplyAll_OneTry(st, sugs, approvals, net) ==
    IF sugs = <<>>
    THEN st
    ELSE IF ~ModuleLoggerDefined
    THEN ApplyOne(st, Head(sugs), approvals, net)
    ELSE ApplyAll_OneTry(ApplyOne(st, Head(sugs), approvals, net), Tail(sugs), approvals, net)

\* node_apply_and_update: the suggestions in order
RECURSIVE ApplyAll(_, _, _, _)
ApplyAll(st, sugs, approvals, net) ==
    IF sugs = <<>>
    THEN st
    ELSE ApplyAll(ApplyOne(st, Head(sugs), approvals, net), Tail(sugs), approvals, net)

NodeApplyAndUpdate(t, rej, ix, idList, names, sugs, approvals, net) ==
    ApplyAll([labeled |-> t, rejected |-> rej, index |-> ix, ids |-> idList,
              gmail_labels |-> names,
              id_by_name |-> IdByName(names), apply_calls |-> <<>>],
             sugs, approvals, net)

\* run_labeling_flow, apply-only mode: one suggestion per approved decision,
\* its message known by id only, in the order of the approvals
ApprovedSuggestions_All(approvals, order) ==
    LET present(m) == m \in DOMAIN approvals
        picked == SelectSeq(order, present)
    IN  [n \in 1..Len(picked) |->
            [suggested_label |-> approvals[picked[n]].final_label,
             source |-> "approval", id |-> picked[n], slim |-> TRUE]]

ApprovedSuggestions(approvals, order) ==
    LET approved(m) == m \in DOMAIN approvals /\ approvals[m].approved
        picked == SelectSeq(order, approved)
    IN  [n \in 1..Len(picked) |->
            [suggested_label |->
                 IF approvals[picked[n]].final_label = None THEN "Uncategorized"
                 ELSE approvals[picked[n]].final_label,
             source |-> "approval", id |-> picked[n], slim |-> TRUE]]

----------------------------------------------------------------------------
(* api_server.py: POST /api/suggestions/apply *)

\* the body of apply_approved_labels' loop for one decision; nothing in the
\* loop catches what mark_email_processed raises, so the loop ends there
\* and the handler answers 500
ApplyDecision(st, m, decision, net) ==
    LET label_name == decision.final_label
        doApply == decision.approved /\ Truthy(label_name)
        ens == EnsureLabel(st.gmail_labels, label_name, net)
        mk == MarkEmailProcessed(st.labeled, m, label_name, TRUE)
    IN  IF ~doApply
        THEN st
        ELSE [labeled |-> mk.labeled,
              gmail_labels |-> ens.labels,
              apply_calls |-> Append(st.apply_calls, ApplyLabel(m, ens.id, net)),
              applied_count |-> IF mk.raised THEN st.applied_count
                                ELSE st.applied_count + 1,
              status |-> IF mk.raised THEN 500 ELSE 200]

\* request.approvals.items() in the order of the request
RECURSIVE ApplyDecisions(_, _, _, _)
ApplyDecisions(st, order, approvals, net) ==
    IF order = <<>> \/ st.status = 500
    THEN st
    ELSE ApplyDecisions(
             IF Head(order) \in DOMAIN approvals
             THEN ApplyDecision(st, Head(order), approvals[Head(order)], net)
             ELSE st,
             Tail(order), approvals, net)

\* apply_approved_labels: the response with applied_count, or status 500
ApplyApprovedLabels(t, names, approvals, order, net) ==
    ApplyDecisions([labeled |-> t, gmail_labels |-> names, apply_calls |-> <<>>,
                    applied_count |-> 0, status |-> 200],
                   order, approvals, net)

----------------------------------------------------------------------------
(* State machine *)

\* the label the direct callers of the store write
StoreLabels == {"L1"}

\* the labels the callers of the store write before a classification
RowLabels == {"L1", "L2"}

\* bound on the number of rows of labeled_emails under direct calls
MaxRows == 2

\* bound on the length of the rejected-label log under direct calls
MaxRejected == 1

\* bound on the length of the rejected-label log when the log itself is
\* followed
MaxLogged == 2

\* bound on the length of the rejected-label log under the labeling flow
MaxFlowRejected == 2

\* bound on the number of messages of one classification pass
MaxBatch == 2

\* bound on the number of decisions of one approvals mapping
MaxApprovals == 2

\* default of state["score_threshold"], in hundredths
DefaultThreshold == 40

\* the score thresholds a caller of the single-message path passes, in
\* hundredths
Thresholds == {DefaultThreshold, 95}

Pos(m) == CHOOSE i \in 1..Len(IdOrder) : IdOrder[i] = m

\* the unread messages a pass fetches: some messages among S, in the
\* provider's order
Batches(S) ==
    {b \in UNION {[1..n -> S] : n \in 1..MaxBatch} :
        \A i \in 1..(Len(b) - 1) : Pos(b[i]) < Pos(b[i + 1])}

\* the messages the labeling flow is run on
FlowIds == {"m1", "m2"}

\* the replies of the generative collaborator
LlmReplies == {Reply("raise", None), Reply("json", "L3")}

\* the approvals mappings a caller passes
Decisions == {Decision(FALSE, None), Decision(TRUE, "L1")}

ApprovalSets ==
    UNION {[D -> Decisions] : D \in {X \in SUBSET FlowIds : Cardinality(X) <= MaxApprovals}}

HasApproved(approvals) == \E m \in DOMAIN approvals : approvals[m].approved

\* the behaviours of the provider during a pass
NetCases == {Net(TRUE, TRUE, TRUE), Net(TRUE, FALSE, TRUE)}

Init ==
    /\ labeled = <<>>
    /\ rejected = <<>>
    /\ index = <<>>
    /\ ids = <<>>
    /\ gmail_labels = <<"L1", "L2">>
    /\ last = [op |-> "init"]

\* the graph of run_labeling_flow stands between node_classify and
\* node_apply_and_update
Pending == last.op = "classify" /\ ~last.raised

\* A classification leaves the store and the provider as they are: the calls
\* that can follow it are those that can follow the state it started from,
\* and they are explored from there.
Observed == last.op \in {"classify", "classify_single", "get_rejected", "different", "stream", "centroids", "fallback_embed", "context", "repeat", "ensure", "both_paths", "resolve"}

Idle == ~Pending /\ ~Observed

\* Each action binds the result of the call it makes to r, computed once.

\* memory.upsert_labeled_email(LabeledEmail(...)) for a message of the mailbox
CallUpsert(m, label, accepted) ==
    /\ Idle
    /\ (RowPos(labeled, m) > 0 \/ Len(labeled) < MaxRows)
    /\ \E r \in {UpsertLabeledEmail(labeled, index, ids,
                     Row(m, Mail[m].subject, Mail[m].from, Mail[m].snippet, label,
                         accepted))} :
          /\ labeled' = r.labeled
          /\ index' = r.index
          /\ ids' = r.ids
          /\ last' = [op |-> "upsert", raised |-> r.raised]
    /\ UNCHANGED <<rejected, gmail_labels>>

\* memory.mark_email_processed(m, label, accepted)
CallMark(m, label, accepted) ==
    /\ Idle
    /\ (RowPos(labeled, m) > 0 \/ Len(labeled) < MaxRows)
    /\ \E r \in {MarkEmailProcessed(labeled, m, label, accepted)} :
          /\ labeled' = r.labeled
          /\ last' = [op |-> "mark", raised |-> r.raised]
    /\ UNCHANGED <<rejected, index, ids, gmail_labels>>

\* memory.store_rejected_label(m, subject, sender, snippet, label)
CallReject(m, label) ==
    /\ Idle
    /\ Len(rejected) < MaxRejected
    /\ \E r \in {StoreRejectedLabel(rejected, m, Mail[m].subject, Mail[m].from,
                                    Mail[m].snippet, label)} :
          /\ rejected' = r.rejected
          /\ last' = [op |-> "reject", raised |-> r.raised]
    /\ UNCHANGED <<labeled, index, ids, gmail_labels>>

\* run_labeling_flow without an approved decision: node_fetch_messages and
\* node_classify
FlowClassify(batch, threshold, replies) ==
    /\ Idle
    /\ \E r \in {NodeClassify(labeled, rejected, index, ids, gmail_labels, batch,
                              threshold, replies)} :
          last' = [op |-> "classify", batch |-> batch, raised |-> r.raised,
                   trace |-> r.trace, suggestions |-> r.suggestions,
                   threshold |-> threshold]
    /\ UNCHANGED <<labeled, rejected, index, ids, gmail_labels>>

\* ... then node_wait_for_approval and node_apply_and_update, with the
\* approvals the flow was called with (none of them approved)
FlowApply(approvals, net) ==
    /\ Pending
    /\ ~HasApproved(approvals)
    /\ Len(rejected) + Len(last.suggestions) <= MaxFlowRejected
    /\ \E r \in {NodeApplyAndUpdate(labeled, rejected, index, ids, gmail_labels,
                                    last.suggestions, approvals, net)} :
          /\ labeled' = r.labeled
          /\ rejected' = r.rejected
          /\ index' = r.index
          /\ ids' = r.ids
          /\ gmail_labels' = r.gmail_labels
          /\ last' = [op |-> "apply", mode |-> "full", approvals |-> approvals,
                      suggestions |-> last.suggestions, net |-> net,
                      apply_calls |-> r.apply_calls,
                      before_labeled |-> labeled, before_rejected |-> rejected]

\* run_labeling_flow with an approved decision: apply-only mode
FlowApplyOnly(approvals, net) ==
    /\ Idle
    /\ HasApproved(approvals)
    /\ \E sugs \in {ApprovedSuggestions(approvals, IdOrder)} :
       \E r \in {NodeApplyAndUpdate(labeled, rejected, index, ids, gmail_labels,
                                    sugs, approvals, net)} :
          /\ labeled' = r.labeled
          /\ rejected' = r.rejected
          /\ index' = r.index
          /\ ids' = r.ids
          /\ gmail_labels' = r.gmail_labels
          /\ last' = [op |-> "apply", mode |-> "apply_only", approvals |-> approvals,
                      suggestions |-> sugs, net |-> net,
                      apply_calls |-> r.apply_calls,
                      before_labeled |-> labeled, before_rejected |-> rejected]

\* _classify_single_email for a message of the mailbox
ClassifySingle(m, threshold, reply) ==
    /\ Idle
    /\ last' = [op |-> "classify_single", id |-> m, threshold |-> threshold,
                out |-> ClassifySingleEmail(labeled, index, ids, FullMessage(m),
                                            gmail_labels, threshold, reply)]
    /\ UNCHANGED <<labeled, rejected, index, ids, gmail_labels>>

\* the store under direct calls
NextStore ==
    \/ \E m \in MsgIds, l \in StoreLabels, a \in BOOLEAN : CallUpsert(m, l, a)
    \/ \E m \in MsgIds, l \in StoreLabels, a \in BOOLEAN : CallMark(m, l, a)
    \/ \E m \in MsgIds, l \in StoreLabels : CallReject(m, l)

SpecStore == Init /\ [][NextStore]_vars

\* classification over the stores the callers can build
NextClassify ==
    \/ \E m \in MsgIds, l \in RowLabels, a \in BOOLEAN : CallUpsert(m, l, a)
    \/ \E m \in MsgIds, l \in StoreLabels : CallReject(m, l)
    \/ \E b \in Batches(MsgIds) : \E rs \in [1..Len(b) -> LlmReplies] :
          FlowClassify(b, DefaultThreshold, rs)
    \/ \E m \in MsgIds, th \in Thresholds, r \in LlmReplies : ClassifySingle(m, th, r)

SpecClassify == Init /\ [][NextClassify]_vars

\* the labeling flow
NextFlow ==
    \/ \E b \in Batches(FlowIds) : \E rs \in [1..Len(b) -> LlmReplies] :
          FlowClassify(b, DefaultThreshold, rs)
    \/ \E ap \in ApprovalSets, net \in NetCases : FlowApply(ap, net)
    \/ \E ap \in ApprovalSets, net \in NetCases : FlowApplyOnly(ap, net)

SpecFlow == Init /\ [][NextFlow]_vars

\* memory.upsert_labeled_email(LabeledEmail(...)), the row handed over kept
\* in last, with whether the call before it was the same call
WriteUpsert(m, label, accepted) ==
    /\ Idle
    /\ (RowPos(labeled, m) > 0 \/ Len(labeled) < MaxRows)
    /\ \E email \in {Row(m, Mail[m].subject, Mail[m].from, Mail[m].snippet, label,
                         accepted)} :
       \E r \in {UpsertLabeledEmail(labeled, index, ids, email)} :
          /\ labeled' = r.labeled
          /\ index' = r.index
          /\ ids' = r.ids
          /\ last' = [op |-> "write_upsert", raised |-> r.raised, row |-> email,
                      repeat |-> (last.op = "write_upsert" /\ last.row = email)]
    /\ UNCHANGED <<rejected, gmail_labels>>

\* memory.mark_email_processed(m, label, accepted), the row its INSERT OR
\* REPLACE names kept in last
WriteMark(m, label, accepted) ==
    /\ Idle
    /\ (RowPos(labeled, m) > 0 \/ Len(labeled) < MaxRows)
    /\ \E r \in {MarkEmailProcessed(labeled, m, label, accepted)} :
          /\ labeled' = r.labeled
          /\ last' = [op |-> "write_mark", raised |-> r.raised,
                      row |-> Row(m, None, None, None, label, accepted)]
    /\ UNCHANGED <<rejected, index, ids, gmail_labels>>

\* the writes to labeled_emails, each remembered with what it wrote
NextWrites ==
    \/ \E m \in MsgIds, l \in RowLabels, a \in BOOLEAN : WriteUpsert(m, l, a)
    \/ \E m \in MsgIds, l \in RowLabels, a \in BOOLEAN : WriteMark(m, l, a)

SpecWrites == Init /\ [][NextWrites]_vars

\* memory.store_rejected_label(m, subject, sender, snippet, label), as often
\* as the log's bound allows
LogReject(m, label) ==
    /\ Idle
    /\ Len(rejected) < MaxLogged
    /\ \E r \in {StoreRejectedLabel(rejected, m, Mail[m].subject, Mail[m].from,
                                    Mail[m].snippet, label)} :
          /\ rejected' = r.rejected
          /\ last' = [op |-> "reject", raised |-> r.raised]
    /\ UNCHANGED <<labeled, index, ids, gmail_labels>>

\* memory.get_rejected_labels_for_similar_emails(subject, sender, snippet)
\* for a message of the mailbox
QueryRejected(m) ==
    /\ Idle
    /\ last' = [op |-> "get_rejected", id |-> m,
                out |-> GetRejectedLabelsForSimilarEmails(rejected, Mail[m].subject,
                            Mail[m].from, Mail[m].snippet, SimilarityThreshold)]
    /\ UNCHANGED <<labeled, rejected, index, ids, gmail_labels>>

\* the store with a longer rejected-label log
NextLog ==
    \/ \E m \in MsgIds, l \in StoreLabels, a \in BOOLEAN : CallUpsert(m, l, a)
    \/ \E m \in MsgIds, l \in StoreLabels, a \in BOOLEAN : CallMark(m, l, a)
    \/ \E m \in FlowIds, l \in StoreLabels : LogReject(m, l)
    \/ \E m \in MsgIds : QueryRejected(m)

SpecLog == Init /\ [][NextLog]_vars

\* the labels a caller of the different-suggestion endpoint can have rejected
RejectableLabels == {"L1", "L2", "L3"}

\* the replies of the generative collaborator to the rejection-aware prompts
DifferentReplies == {Reply("raise", None), Reply("json", "L1"), Reply("json", "L3")}

\* get_different_suggestion: _classify_single_email_with_rejected for a
\* message of the mailbox, with the rejected suggestions of the request
DifferentSuggestion(m, rejectedSuggestions, threshold, reply, retry) ==
    /\ Idle
    /\ last' = [op |-> "different", id |-> m,
                rejected_suggestions |-> rejectedSuggestions,
                threshold |-> threshold, reply |-> reply, retry |-> retry,
                out |-> ClassifySingleEmailWithRejected(labeled, FullMessage(m),
                            gmail_labels, rejectedSuggestions, threshold, reply, retry)]
    /\ UNCHANGED <<labeled, rejected, index, ids, gmail_labels>>

\* the different-suggestion endpoint over the stores the callers can build
NextDifferent ==
    \/ \E m \in MsgIds, l \in RowLabels, a \in BOOLEAN : CallUpsert(m, l, a)
    \/ \E m \in MsgIds, rs \in SUBSET RejectableLabels, th \in Thresholds,
          r \in DifferentReplies, r2 \in DifferentReplies :
          DifferentSuggestion(m, rs, th, r, r2)

SpecDifferent == Init /\ [][NextDifferent]_vars

\* the score thresholds of the callers around a mapped score of 0.90
BoundaryThresholds == {89, 90, 91}

\* the rejected suggestions of the different-suggestion requests there
BoundaryRejected == {{}, {"L2"}}

\* the three resolvers called with thresholds at, below and above a score
NextBoundary ==
    \/ \E m \in MsgIds, l \in RowLabels, a \in BOOLEAN : CallUpsert(m, l, a)
    \/ \E b \in Batches(MsgIds), th \in BoundaryThresholds :
          \E rs \in [1..Len(b) -> {Reply("raise", None)}] : FlowClassify(b, th, rs)
    \/ \E m \in MsgIds, th \in BoundaryThresholds :
          ClassifySingle(m, th, Reply("raise", None))
    \/ \E m \in MsgIds, rs \in BoundaryRejected, th \in BoundaryThresholds :
          DifferentSuggestion(m, rs, th, Reply("raise", None), Reply("raise", None))

SpecBoundary == Init /\ [][NextBoundary]_vars

\* the labels of the rows of a store that outlived a label of the provider:
\* L3 is not among the provider's labels
StaleLabels == {"L1", "L3"}

\* classification over a store holding a label the provider does not have
NextStale ==
    \/ \E m \in MsgIds, l \in StaleLabels, a \in BOOLEAN : CallUpsert(m, l, a)
    \/ \E b \in Batches(MsgIds), th \in Thresholds :
          \E rs \in [1..Len(b) -> LlmReplies] : FlowClassify(b, th, rs)
    \/ \E m \in MsgIds, th \in Thresholds, r \in LlmReplies : ClassifySingle(m, th, r)

SpecStale == Init /\ [][NextStale]_vars

\* the replies of the generative collaborator, one of each kind the parsing
\* tells apart
BatchReplies ==
    {Reply("raise", None), Reply("empty", None), Reply("garbage", None),
     Reply("json", "L3")}

\* node_classify on a batch, the replies of the generative collaborator kept
\* in last
BatchClassify(batch, threshold, replies) ==
    /\ Idle
    /\ \E r \in {NodeClassify(labeled, rejected, index, ids, gmail_labels, batch,
                              threshold, replies)} :
          last' = [op |-> "classify", batch |-> batch, raised |-> r.raised,
                   trace |-> r.trace, suggestions |-> r.suggestions,
                   threshold |-> threshold, replies |-> replies]
    /\ UNCHANGED <<labeled, rejected, index, ids, gmail_labels>>

\* classify_emails_streaming on a batch, consumed to its end
StreamClassify(batch, threshold, replies, fails) ==
    /\ Idle
    /\ \E r \in {ClassifyEmailsStreaming(labeled, index, ids, gmail_labels, batch,
                                         threshold, replies, fails)} :
          last' = [op |-> "stream", batch |-> batch, raised |-> r.raised,
                   trace |-> r.trace, suggestions |-> r.suggestions,
                   threshold |-> threshold, replies |-> replies, fails |-> fails]
    /\ UNCHANGED <<labeled, rejected, index, ids, gmail_labels>>

\* batches classified over the stores the callers can build
NextBatch ==
    \/ \E m \in MsgIds, l \in StoreLabels, a \in BOOLEAN : CallUpsert(m, l, a)
    \/ \E b \in Batches(MsgIds) : \E rs \in [1..Len(b) -> BatchReplies] :
          BatchClassify(b, DefaultThreshold, rs)
    \/ \E b \in Batches(MsgIds) :
          \E rs \in [1..Len(b) -> BatchReplies], fs \in [1..Len(b) -> BOOLEAN] :
             StreamClassify(b, DefaultThreshold, rs, fs)

SpecBatch == Init /\ [][NextBatch]_vars

\* the subjects of the examples the callers hand over: msg.get("subject"),
\* which is None for a message without one (the text then starts with the
\* sender)
Subjects == {"invoice", "party", None}

\* memory.upsert_labeled_email(LabeledEmail(...)) for an example of any of
\* these subjects
WriteExample(m, subject, label, accepted) ==
    /\ Idle
    /\ (RowPos(labeled, m) > 0 \/ Len(labeled) < MaxRows)
    /\ \E r \in {UpsertLabeledEmail(labeled, index, ids,
                     Row(m, subject, "billing", None, label, accepted))} :
          /\ labeled' = r.labeled
          /\ index' = r.index
          /\ ids' = r.ids
          /\ last' = [op |-> "upsert", raised |-> r.raised]
    /\ UNCHANGED <<rejected, gmail_labels>>

\* memory.get_label_centroids()
QueryCentroids ==
    /\ Idle
    /\ last' = [op |-> "centroids", out |-> GetLabelCentroids(labeled)]
    /\ UNCHANGED <<labeled, rejected, index, ids, gmail_labels>>

\* the centroids of the stores the callers can build
NextCentroids ==
    \/ \E m \in MsgIds, s \in Subjects, l \in RowLabels, a \in BOOLEAN :
          WriteExample(m, s, l, a)
    \/ QueryCentroids

SpecCentroids == Init /\ [][NextCentroids]_vars

\* memory.embed_text on the text of message m, in a process started with
\* hash seed seed and without the sentence encoder; the run before it, when
\* there was one, is kept in last
FallbackEmbedRun(m, seed) ==
    /\ last.op \in {"init", "fallback_embed"}
    /\ \E text \in {Joined(Mail[m].subject, Mail[m].from, Mail[m].snippet)} :
          last' = [op |-> "fallback_embed", id |-> m, seed |-> seed,
                   out |-> FallbackEmbed(text, seed),
                   before |-> IF last.op = "fallback_embed"
                              THEN [id |-> last.id, out |-> last.out]
                              ELSE [id |-> None, out |-> Zero]]
    /\ UNCHANGED <<labeled, rejected, index, ids, gmail_labels>>

\* process runs without the sentence encoder
NextFallback == \E m \in MsgIds, s \in HashSeeds : FallbackEmbedRun(m, s)

SpecFallback == Init /\ [][NextFallback]_vars

\* bound on the number of rows of labeled_emails when the tally of the
\* majority tier is followed
MaxExamples == 3

\* memory.upsert_labeled_email(LabeledEmail(...)) for a message of the
\* mailbox, into a store of up to MaxExamples rows
TeachExample(m, label, accepted) ==
    /\ Idle
    /\ (RowPos(labeled, m) > 0 \/ Len(labeled) < MaxExamples)
    /\ \E r \in {UpsertLabeledEmail(labeled, index, ids,
                     Row(m, Mail[m].subject, Mail[m].from, Mail[m].snippet, label,
                         accepted))} :
          /\ labeled' = r.labeled
          /\ index' = r.index
          /\ ids' = r.ids
          /\ last' = [op |-> "upsert", raised |-> r.raised]
    /\ UNCHANGED <<rejected, gmail_labels>>

\* classification over stores with enough examples for a tally to be won
NextMajority ==
    \/ \E m \in MsgIds, l \in StaleLabels, a \in BOOLEAN : TeachExample(m, l, a)
    \/ \E b \in Batches(MsgIds), th \in Thresholds :
          \E rs \in [1..Len(b) -> LlmReplies] : FlowClassify(b, th, rs)
    \/ \E m \in MsgIds, th \in Thresholds, r \in LlmReplies : ClassifySingle(m, th, r)

SpecMajority == Init /\ [][NextMajority]_vars

\* the replies of the generative collaborator the parsers tell apart: a JSON
\* object with a label, one with an empty label, a `label:` line, neither
ParseReplies ==
    {Reply("json", "L3"), Reply("json", ""), Reply("line", "L2"), Reply("garbage", None)}

\* get_suggestion_with_context: _classify_single_email_with_context for a
\* message of the mailbox
ContextSuggestion(m, reply) ==
    /\ Idle
    /\ last' = [op |-> "context", id |-> m, reply |-> reply,
                out |-> ClassifySingleEmailWithContext(FullMessage(m), gmail_labels, reply)]
    /\ UNCHANGED <<labeled, rejected, index, ids, gmail_labels>>

\* the resolvers over the replies the parsers tell apart
NextParse ==
    \/ \E m \in MsgIds, l \in StoreLabels, a \in BOOLEAN : CallUpsert(m, l, a)
    \/ \E b \in Batches(MsgIds) : \E rs \in [1..Len(b) -> ParseReplies] :
          BatchClassify(b, DefaultThreshold, rs)
    \/ \E b \in Batches(MsgIds) : \E rs \in [1..Len(b) -> ParseReplies] :
          StreamClassify(b, DefaultThreshold, rs, [n \in 1..Len(b) |-> FALSE])
    \/ \E m \in MsgIds, r \in ParseReplies \cup {Reply("raise", None)} :
          ContextSuggestion(m, r)

SpecParse == Init /\ [][NextParse]_vars

\* _classify_single_email for a message of the mailbox, the generative
\* collaborator raising, and then the same call once more on the same
\* store, the outcome of the first call kept beside that of the second
RepeatSingle(m, threshold) ==
    /\ \/ Idle
       \/ /\ last.op = "repeat" /\ ~last.again
          /\ last.entry = "single" /\ last.id = m /\ last.threshold = threshold
    /\ \E r \in {ClassifySingleEmail(labeled, index, ids, FullMessage(m), gmail_labels,
                                     threshold, Reply("raise", None))} :
          last' = [op |-> "repeat", entry |-> "single", id |-> m,
                   threshold |-> threshold, out |-> r,
                   again |-> last.op = "repeat",
                   before |-> IF last.op = "repeat" THEN last.out ELSE r]
    /\ UNCHANGED <<labeled, rejected, index, ids, gmail_labels>>

\* the same for the body of node_classify's loop
RepeatNode(m, threshold) ==
    /\ \/ Idle
       \/ /\ last.op = "repeat" /\ ~last.again
          /\ last.entry = "node" /\ last.id = m /\ last.threshold = threshold
    /\ \E r \in {ClassifyMessage(labeled, rejected, index, ids, Mail[m], gmail_labels,
                                 threshold, Reply("raise", None))} :
          last' = [op |-> "repeat", entry |-> "node", id |-> m,
                   threshold |-> threshold, out |-> r,
                   again |-> last.op = "repeat",
                   before |-> IF last.op = "repeat" THEN last.out ELSE r]
    /\ UNCHANGED <<labeled, rejected, index, ids, gmail_labels>>

\* repeated classification over stores where labels tie
NextRepeat ==
    \/ \E m \in MsgIds, s \in Subjects, l \in RowLabels, a \in BOOLEAN :
          WriteExample(m, s, l, a)
    \/ \E m \in MsgIds, th \in Thresholds : RepeatSingle(m, th)
    \/ \E m \in MsgIds, th \in Thresholds : RepeatNode(m, th)

SpecRepeat == Init /\ [][NextRepeat]_vars

\* the names ensure_label is called with: a label the provider has and
\* labels it has not
EnsureNames == {"L1", "L3", "L4", "L5"}

\* the provider answering, or failing, during one call of ensure_label
EnsureNets == {Net(TRUE, TRUE, TRUE), Net(FALSE, TRUE, TRUE)}

\* gmail.ensure_label(name), and then the same call once more; the id the
\* first call returned and whether it created the label are kept beside
\* those of the second
CallEnsure(name, net) ==
    /\ \/ Idle
       \/ last.op = "ensure" /\ last.name = name /\ ~last.again
    /\ \E r \in {EnsureLabel(gmail_labels, name, net)} :
          /\ gmail_labels' = r.labels
          /\ last' = [op |-> "ensure", name |-> name, id |-> r.id,
                      created |-> r.labels # gmail_labels,
                      again |-> last.op = "ensure",
                      before_id |-> IF last.op = "ensure" THEN last.id ELSE r.id,
                      before_created |-> IF last.op = "ensure" THEN last.created ELSE FALSE]
    /\ UNCHANGED <<labeled, rejected, index, ids>>

\* a caller done with a label goes on to another
EnsureDone ==
    /\ last.op = "ensure" /\ last.again
    /\ last' = [op |-> "init"]
    /\ UNCHANGED <<labeled, rejected, index, ids, gmail_labels>>

\* repeated calls of ensure_label
NextEnsure ==
    \/ \E n \in EnsureNames, net \in EnsureNets : CallEnsure(n, net)
    \/ EnsureDone

SpecEnsure == Init /\ [][NextEnsure]_vars

\* MemoryStore.__init__ over the data directory of a closed store: the rows
\* stay in the database, _load_or_init_index reads the vectors back from the
\* file _save_index wrote after the last rebuild, and self.ids, which is
\* assigned only in _rebuild_index, is not set
Reopen(rows, ix) == [labeled |-> rows, index |-> ix, ids |-> <<>>]

\* similar(MsgEmbed(m), K) for each message of the mailbox
SimilarAll(ix, idList) == [m \in MsgIds |-> Similar(ix, idList, MsgEmbed(Mail[m]), K)]

\* the store is closed and a new MemoryStore is opened over the same
\* directory; last keeps what similar() returned before and returns after
CallReopen ==
    /\ Idle
    /\ last.op # "reopen"
    /\ \E r \in {Reopen(labeled, index)} :
          /\ labeled' = r.labeled
          /\ index' = r.index
          /\ ids' = r.ids
          /\ last' = [op |-> "reopen", before |-> SimilarAll(index, ids),
                      after |-> SimilarAll(r.index, r.ids)]
    /\ UNCHANGED <<rejected, gmail_labels>>

\* a store written by upserts, closed and opened again
NextReopen ==
    \/ \E m \in MsgIds, l \in RowLabels, a \in BOOLEAN : CallUpsert(m, l, a)
    \/ CallReopen

SpecReopen == Init /\ [][NextReopen]_vars

\* the decisions of a request: rejected, approved with a label, approved
\* with no final_label key, approved with an empty label
RequestDecisions == {Decision(FALSE, None), Decision(FALSE, "L1"), Decision(TRUE, "L1"), Decision(TRUE, "L3"), Decision(TRUE, None), Decision(TRUE, "")}

RequestApprovals ==
    UNION {[D -> RequestDecisions] : D \in {X \in SUBSET FlowIds : Cardinality(X) <= MaxApprovals}}

\* POST /api/suggestions/apply with the approvals of the request
CallApplyEndpoint(approvals, net) ==
    /\ Idle
    /\ \E r \in {ApplyApprovedLabels(labeled, gmail_labels, approvals, IdOrder, net)} :
          /\ labeled' = r.labeled
          /\ gmail_labels' = r.gmail_labels
          /\ last' = [op |-> "api_apply", approvals |-> approvals, net |-> net,
                      apply_calls |-> r.apply_calls, status |-> r.status,
                      applied_count |-> r.applied_count, before_labeled |-> labeled]
    /\ UNCHANGED <<rejected, index, ids>>

\* a request arrives at a store no request or one request has written
FewRequests ==
    \/ last.op = "init"
    \/ last.op \in {"apply", "api_apply"} /\ last.before_labeled = <<>>

\* the two ways decisions reach the provider: run_labeling_flow in apply-only
\* mode and the endpoint
NextApply ==
    \/ \E ap \in RequestApprovals, net \in NetCases :
          FewRequests /\ FlowApplyOnly(ap, net)
    \/ \E ap \in RequestApprovals, net \in NetCases :
          FewRequests /\ CallApplyEndpoint(ap, net)

SpecApply == Init /\ [][NextApply]_vars

\* node_classify on the one message m and _classify_single_email on m (what
\* classify_emails_streaming yields for it), against the same store, the
\* same provider labels, the same threshold and the same generative reply
ClassifyBothPaths(m, threshold, reply) ==
    /\ Idle
    /\ \E r \in {NodeClassify(labeled, rejected, index, ids, gmail_labels, <<m>>,
                              threshold, <<reply>>)} :
       \E s \in {ClassifyEmailsStreaming(labeled, index, ids, gmail_labels, <<m>>,
                                         threshold, <<reply>>, <<FALSE>>)} :
          last' = [op |-> "both_paths", id |-> m, threshold |-> threshold,
                   reply |-> reply, node |-> r, stream |-> s]
    /\ UNCHANGED <<labeled, rejected, index, ids, gmail_labels>>

\* the two paths over the stores the callers can build
NextBothPaths ==
    \/ \E m \in MsgIds, l \in RowLabels, a \in BOOLEAN : CallUpsert(m, l, a)
    \/ \E m \in MsgIds, l \in StoreLabels : CallReject(m, l)
    \/ \E m \in MsgIds, th \in Thresholds, r \in LlmReplies : ClassifyBothPaths(m, th, r)

SpecBothPaths == Init /\ [][NextBothPaths]_vars

\* the three resolvers
Resolvers == {"node_classify", "_classify_single_email", "_classify_single_email_with_rejected"}

\* what a resolver returns for message m; the rejection-aware one is called
\* with the rejected suggestion L1 and gets the same reply to its retry
ResolverOutcome(resolver, m, threshold, reply) ==
    IF resolver = "node_classify"
    THEN NodeClassify(labeled, rejected, index, ids, gmail_labels, <<m>>, threshold, <<reply>>)
    ELSE IF resolver = "_classify_single_email"
    THEN ClassifySingleEmail(labeled, index, ids, FullMessage(m), gmail_labels, threshold, reply)
    ELSE ClassifySingleEmailWithRejected(labeled, FullMessage(m), gmail_labels, {"L1"}, threshold, reply, reply)

\* one call of a resolver; last keeps the store it started from
Resolve(resolver, m, threshold, reply) ==
    /\ Idle
    /\ \E st \in {StoreCallsOfResolvers(labeled, rejected, index, ids)} :
          /\ labeled' = st.labeled
          /\ rejected' = st.rejected
          /\ index' = st.index
          /\ ids' = st.ids
    /\ last' = [op |-> "resolve", resolver |-> resolver, id |-> m,
                out |-> ResolverOutcome(resolver, m, threshold, reply),
                before |-> [labeled |-> labeled, rejected |-> rejected,
                            index |-> index, ids |-> ids]]
    /\ UNCHANGED gmail_labels

\* the resolvers over the stores feedback ingestion can build
NextResolve ==
    \/ \E m \in FlowIds, l \in RowLabels : CallUpsert(m, l, TRUE)
    \/ \E m \in FlowIds, l \in StoreLabels : CallReject(m, l)
    \/ \E f \in Resolvers, m \in FlowIds, r \in LlmReplies :
          Resolve(f, m, DefaultThreshold, r)

SpecResolve == Init /\ [][NextResolve]_vars

\* the calls of GmailClient that retry after re-authentication
GmailCalls == {"get_unread_messages", "get_message_by_id", "apply_label", "ensure_label"}

\* what str(e) of a failed provider request can contain
ProviderErrors == {"HttpError 400", "HttpError 401", "HttpError 403", "HttpError 404", "failedPrecondition", "SSL"}

\* the errors after which a call removes the token, re-authenticates and
\* calls itself again: 401, 403, failedPrecondition and SSL, except in
\* ensure_label, which tests for 400 in place of 401 and 403
AuthType(call, err) ==
    IF call = "ensure_label"
    THEN err \in {"HttpError 400", "failedPrecondition", "SSL"}
    ELSE err \in {"HttpError 401", "HttpError 403", "failedPrecondition", "SSL"}

\* what each call returns when it gives up: [], {"id": msg_id}, False,
\* ("FALLBACK_" + name, ...)
FallbackValue(call, arg) ==
    IF call = "get_unread_messages" THEN <<>>
    ELSE IF call = "get_message_by_id" THEN SlimMessage(arg)
    ELSE IF call = "apply_label" THEN FALSE
    ELSE FallbackId(arg)

\* the depth of frames at which the interpreter raises RecursionError
\* (sys.getrecursionlimit(), 1000 by default, scaled down)
RecursionLimit == 6

\* a call of the client starts: frame 1, the token file there or not
GmailCall(call, arg, tokenExists) ==
    /\ last.op = "init"
    /\ last' = [op |-> "gmail", call |-> call, arg |-> arg, depth |-> 1,
                token_exists |-> tokenExists, status |-> "running",
                result |-> None, stack_exhausted |-> FALSE]
    /\ UNCHANGED <<labeled, rejected, index, ids, gmail_labels>>

\* the innermost frame's request succeeds: the value goes back up through
\* every `return self.<call>(...)`
GmailSucceeds ==
    /\ last.op = "gmail" /\ last.status = "running"
    /\ last' = [last EXCEPT !.status = "returned", !.result = "value"]
    /\ UNCHANGED <<labeled, rejected, index, ids, gmail_labels>>

\* the request fails with an error that is not of the authentication type,
\* or with one while the token file is missing: the fallback is returned
GmailGivesUp(err) ==
    /\ last.op = "gmail" /\ last.status = "running"
    /\ ~AuthType(last.call, err) \/ ~last.token_exists
    /\ last' = [last EXCEPT !.status = "returned",
                            !.result = FallbackValue(last.call, last.arg)]
    /\ UNCHANGED <<labeled, rejected, index, ids, gmail_labels>>

\* the request fails with an error of the authentication type and the token
\* file exists: os.remove(token), authenticate(), then the call calls
\* itself. authenticate() either writes a new token or raises (no
\* interactive terminal, a failing OAuth flow); what it raises leaves the
\* except block it was called in. One frame past the recursion limit the
\* interpreter raises RecursionError: inside the innermost try it is caught
\* as an error that is not of the authentication type, inside an except
\* block it leaves the call
GmailRetries(err, authOk, caught) ==
    /\ last.op = "gmail" /\ last.status = "running"
    /\ AuthType(last.call, err) /\ last.token_exists
    /\ last' = IF ~authOk
               THEN [last EXCEPT !.status = "raised", !.token_exists = FALSE]
               ELSE IF last.depth < RecursionLimit
               THEN [last EXCEPT !.depth = last.depth + 1]
               ELSE IF caught
               THEN [last EXCEPT !.status = "returned", !.stack_exhausted = TRUE,
                                 !.result = FallbackValue(last.call, last.arg)]
               ELSE [last EXCEPT !.status = "raised", !.stack_exhausted = TRUE]
    /\ UNCHANGED <<labeled, rejected, index, ids, gmail_labels>>

\* calls of the client against a provider that answers or fails each request
NextGmail ==
    \/ \E c \in GmailCalls, a \in FlowIds, t \in BOOLEAN : GmailCall(c, a, t)
    \/ GmailSucceeds
    \/ \E e \in ProviderErrors : GmailGivesUp(e)
    \/ \E e \in ProviderErrors, ok \in BOOLEAN, caught \in BOOLEAN : GmailRetries(e, ok, caught)

SpecGmail == Init /\ [][NextGmail]_vars

Next == NextStore \/ NextClassify \/ NextFlow \/ NextWrites \/ NextLog \/ NextDifferent \/ NextBoundary \/ NextStale \/ NextBatch \/ NextCentroids \/ NextFallback \/ NextMajority \/ NextParse \/ NextRepeat \/ NextEnsure \/ NextReopen \/ NextApply \/ NextBothPaths \/ NextResolve \/ NextGmail

Spec == Init /\ [][Next]_vars

----------------------------------------------------------------------------
(* Classification claims, checked under SpecClassify *)

\* the labels rejected for messages similar to message m, as the loop of
\* get_rejected_labels_for_similar_emails collects them
RejectedFor(m) ==
    SimilarRejectedLabels(rejected, Mail[m].subject, Mail[m].from, Mail[m].snippet,
                          SimilarityThreshold)

\* the positions of the messages node_classify went through in the last pass
Passed == IF last.op = "classify" THEN DOMAIN last.trace ELSE {}

\* C1: in node_classify, a suggestion with source "centroid" never carries a
\* label that is rejected for a message similar to the one being classified,
\* even when that label has the highest centroid score.
C1_CentroidNeverRejected ==
    \A n \in Passed :
        last.trace[n].suggestion.source = "centroid"
            => last.trace[n].suggestion.suggested_label \notin RejectedFor(last.batch[n])

\* C1's case: one pass in which a message gets a centroid suggestion for a
\* label the log holds (for a dissimilar message), and in which the label that
\* scores highest for another message is rejected for a message similar to it
\* and is not returned.
C1_Witness ==
    /\ last.op = "classify"
    /\ \E i \in Passed :
          /\ last.trace[i].suggestion.source = "centroid"
          /\ \E k \in DOMAIN rejected :
                rejected[k].rejected_label = last.trace[i].suggestion.suggested_label
    /\ \E j \in Passed :
          /\ CentroidScoringSingle(labeled, Mail[last.batch[j]], gmail_labels,
                                   last.threshold) \in RejectedFor(last.batch[j])
          /\ last.trace[j].suggestion.source # "centroid"

\* the outcomes of the last classification, each with its message
Outcomes ==
    IF last.op = "classify"
    THEN {[id |-> last.batch[n], out |-> last.trace[n]] : n \in DOMAIN last.trace}
    ELSE IF last.op = "classify_single"
    THEN {[id |-> last.id, out |-> last.out]}
    ELSE {}

\* C2: a suggestion with source "memory_similar" never carries a label that
\* is in the rejected-label set for messages similar to the one being
\* classified.
C2_MajorityNeverRejected ==
    \A o \in Outcomes :
        o.out.suggestion.source = "memory_similar"
            => o.out.suggestion.suggested_label \notin RejectedFor(o.id)

\* the label the majority tier would give for message m in the current store
MajorityFor(m) ==
    LET hits == Similar(index, ids, MsgEmbed(Mail[m]), K)
    IN  MajorityLabelFromSimilar(
            GetMessagesByIds(labeled, [n \in 1..Len(hits) |-> hits[n].message_id]))

\* whether the centroid tier gives a label for message m in the current store
CentroidResolves(m, threshold) ==
    CentroidScoringSingle(labeled, Mail[m], gmail_labels, threshold) # None

\* C3: the tiers are tried in the order centroid, historical majority,
\* generative: the similar-example lookup happens only if the centroid tier
\* gave no label at or above the threshold, the generative collaborator is
\* called only if in addition the majority tier gave no label known to the
\* provider, and a message resolved by a tier triggers no later tier.
C3_TierOrder ==
    \A o \in Outcomes :
        /\ o.out.similar_called => ~CentroidResolves(o.id, last.threshold)
        /\ o.out.llm_called =>
              /\ o.out.similar_called
              /\ MajorityFor(o.id) \notin SeqToSet(gmail_labels)
        /\ o.out.suggestion.source \in {"centroid", "embedding"} =>
              ~o.out.similar_called /\ ~o.out.llm_called
        /\ o.out.suggestion.source = "memory_similar" =>
              o.out.similar_called /\ ~o.out.llm_called
        /\ o.out.suggestion.source = "llm" =>
              o.out.similar_called /\ o.out.llm_called

\* C3's case: one pass resolves a message at the centroid tier, without any
\* lookup, and another at the majority tier, without the generative
\* collaborator.
C3_Witness ==
    /\ last.op = "classify"
    /\ \E i, j \in Passed :
          /\ last.trace[i].suggestion.source = "centroid"
          /\ last.trace[j].suggestion.source = "memory_similar"

----------------------------------------------------------------------------
(* Feedback-ingestion claims, checked under SpecFlow *)

\* the rows of table t for message m
RowsOf(t, m) == {r \in SeqToSet(t) : r.message_id = m}

\* the records the last run of the flow appended to the rejected-label log
Appended ==
    IF last.op = "apply"
    THEN {rejected[k] : k \in (Len(last.before_rejected) + 1)..Len(rejected)}
    ELSE {}

\* the suggestions the last run of the flow handed to node_apply_and_update
Ingested == IF last.op = "apply" THEN SeqToSet(last.suggestions) ELSE {}

\* the messages of the approvals of the last run that the run knows: in a full
\* run those it has a suggestion for, in apply-only mode all of them
Decided ==
    IF last.op # "apply"
    THEN {}
    ELSE IF last.mode = "full"
    THEN {m \in DOMAIN last.approvals : \E s \in Ingested : s.id = m}
    ELSE DOMAIN last.approvals

\* C4: once an approved decision has been ingested, the provider's calls
\* succeeding, the store holds for the message a row with accepted = TRUE, the
\* final label, and the message's subject, sender and snippet.
C4_ApprovedStoredWithText ==
    last.op = "apply" /\ last.net = Net(TRUE, TRUE, TRUE) =>
        \A s \in Ingested :
            DecisionFor(last.approvals, s.id).approved =>
                RowsOf(labeled, s.id) =
                    {Row(s.id, Mail[s.id].subject, Mail[s.id].from, Mail[s.id].snippet,
                         FinalLabel(last.approvals, s), TRUE)}

\* C5: ingesting a rejected decision creates or updates no row of
\* labeled_emails: the rows of the message are those from before the run.
C5_RejectedLeavesLabeled ==
    \A m \in Decided :
        ~last.approvals[m].approved =>
            RowsOf(labeled, m) = RowsOf(last.before_labeled, m)

\* C6: for every message whose decision has approved = FALSE, a record with
\* the message id has been appended to the rejected-label log when the flow
\* returns.
C6_RejectedRecorded ==
    \A m \in Decided :
        ~last.approvals[m].approved => \E r \in Appended : r.message_id = m

\* C7: a record is appended to the rejected-label log only for a message with
\* a decision declining the label; a suggestion without a decision leaves the
\* log as it is.
C7_RecordOnlyOnDecision ==
    \A r \in Appended :
        /\ r.message_id \in DOMAIN last.approvals
        /\ ~last.approvals[r.message_id].approved

\* C8: after the flow, every message with a decision, approved or rejected,
\* is in get_processed_email_ids().
C8_DecidedProcessed ==
    \A m \in Decided : m \in GetProcessedEmailIds(labeled)

----------------------------------------------------------------------------
(* Similarity-index claims, checked under SpecStore *)

\* what similar() can return: the vectors of the index, each with the message
\* id self.ids gives for its position
Served ==
    {[message_id |-> ids[i], vector |-> index[i]] :
        i \in 1..Min(Len(index), Len(ids))}

\* what the index would serve after _rebuild_index on the current table
Rebuilt ==
    {[message_id |-> r.message_id, vector |-> RowEmbed(r)] :
        r \in SeqToSet(AcceptedRows(labeled))}

\* C9: after any sequence of upsert_labeled_email, store_rejected_label and
\* mark_email_processed calls, the index serves exactly the rows with
\* accepted = TRUE, embedded from their stored text, as a full rebuild would.
C9_IndexIsFullRebuild == Served = Rebuilt

\* C10: when upsert_labeled_email returns, the message ids similar() can
\* return are exactly the ids of the rows with accepted = TRUE.
C10_ConsistentAfterUpsert ==
    last.op = "upsert" =>
        {e.message_id : e \in Served} = AcceptedIds(labeled)

\* C10's case: an upsert returns on a table with an accepted row written by
\* mark_email_processed (without text) beside the one just written, and the
\* index serves both.
C10_Witness ==
    /\ last.op = "upsert"
    /\ Cardinality(AcceptedIds(labeled)) >= 2
    /\ \E r \in SeqToSet(AcceptedRows(labeled)) : r.subject = None
    /\ \E r \in SeqToSet(AcceptedRows(labeled)) : r.subject # None
    /\ Cardinality(Served) >= 2

----------------------------------------------------------------------------
(* Store claims, checked under SpecWrites *)

\* no two rows of labeled_emails bear the same message id
OneRowPerId ==
    \A i, j \in DOMAIN labeled :
        labeled[i].message_id = labeled[j].message_id => i = j

\* the row of the message just written is the row that was written
LatestWriteStored ==
    last.op \in {"write_upsert", "write_mark"} =>
        RowsOf(labeled, last.row.message_id) = {last.row}

\* a write leaves the rows of every other message as they were
OtherRowsKept ==
    \A m \in MsgIds :
        m # last'.row.message_id => RowsOf(labeled', m) = RowsOf(labeled, m)

\* C11: after any sequence of upsert_labeled_email and mark_email_processed
\* calls the store holds at most one row per message id, and that row carries
\* the fields of the latest write for that id.
C11_OneRowLatestWrite ==
    /\ [](OneRowPerId /\ LatestWriteStored)
    /\ [][OtherRowsKept]_vars

\* C11's case: a write to a message id that already had a row, beside the row
\* of another message: the table has two rows and the one just written is
\* not the newest position.
C11_Witness ==
    /\ last.op \in {"write_upsert", "write_mark"}
    /\ Len(labeled) = 2
    /\ labeled[1].message_id = last.row.message_id
    /\ labeled[1] = last.row

\* what similar() returns for each message of the mailbox
TopK(ix, idList) == [m \in MsgIds |-> Similar(ix, idList, MsgEmbed(Mail[m]), K)]

\* C12: calling upsert_labeled_email a second time with identical data leaves
\* the rows, the label centroids and the index content as they were after
\* the first call: no duplicate row, and similar() returns the same top-k
\* list.
C12_UpsertIdempotent ==
    [][last'.op = "write_upsert" /\ last'.repeat =>
          /\ labeled' = labeled
          /\ index' = index
          /\ ids' = ids
          /\ GetLabelCentroids(labeled') = GetLabelCentroids(labeled)
          /\ TopK(index', ids') = TopK(index, ids)]_vars

\* C12's case: the same accepted row has been upserted twice in a row, into
\* a table with another row, and the index serves it.
C12_Witness ==
    /\ last.op = "write_upsert"
    /\ last.repeat
    /\ last.row.accepted
    /\ Len(labeled) = 2
    /\ \E i \in DOMAIN ids : ids[i] = last.row.message_id
    /\ index # <<>>

----------------------------------------------------------------------------
(* Rejected-label log claims, checked under SpecLog *)

\* C13: the rejected-label log is append-only: no store operation changes or
\* removes a record it holds, and several records for the same message id
\* can coexist.
C13_LogAppendOnly ==
    [][/\ Len(rejected') >= Len(rejected)
       /\ \A k \in DOMAIN rejected : rejected'[k] = rejected[k]]_vars

\* C13's case: the log holds two records for the same message id, and rows
\* have been written to labeled_emails as well.
C13_Witness ==
    /\ Len(rejected) >= 2
    /\ rejected[1].message_id = rejected[2].message_id
    /\ labeled # <<>>
    /\ last.op \in {"upsert", "mark", "get_rejected"}

----------------------------------------------------------------------------
(* Claims on the rejection-aware resolver, under SpecDifferent *)

\* a different-suggestion call has just returned
Answered == last.op = "different"

\* C14: the rejection-aware resolver never returns a suggestion whose label
\* is among the rejected suggestions of its caller, whatever the tier; when
\* the generative tier names a rejected label on the first call and on the
\* retry, nothing is suggested.
C14_NeverRejectedSuggestion ==
    Answered =>
        /\ last.out.suggestion.suggested_label \notin last.rejected_suggestions
        /\ (/\ last.out.llm_calls = 2
            /\ last.retry.kind = "json"
            /\ last.retry.label \in last.rejected_suggestions)
              => last.out.suggestion = NoSuggestion

\* C15: when some label outside the rejected suggestions has a mapped
\* centroid score at or above the threshold, the first of the highest-scoring
\* such labels is returned with source "centroid", even if a rejected label
\* scores higher.
BestOutsideRejected(m, rejectedSuggestions, threshold) ==
    LET centroids == GetLabelCentroids(labeled)
        q == MsgEmbed(FullMessage(m))
        open(l) == l \in DOMAIN centroids /\ l \notin rejectedSuggestions
        cands == SelectSeq(gmail_labels, open)
        score_map == [l \in SeqToSet(cands) |-> CentroidScore(q, centroids[l])]
    IN  IF cands = <<>>
        THEN None
        ELSE LET b == FirstMax(cands, score_map)
             IN  IF MeetsThreshold(score_map[b], threshold) THEN b ELSE None

C15_RejectedRemovedBeforeRanking ==
    Answered =>
        LET b == BestOutsideRejected(last.id, last.rejected_suggestions, last.threshold)
        IN  b # None =>
              /\ last.out.suggestion.suggested_label = b
              /\ last.out.suggestion.source = "centroid"

----------------------------------------------------------------------------
(* Threshold boundary, under SpecBoundary *)

\* the labels of the provider that have a centroid in the current store
Mapped == SelectSeq(gmail_labels, LAMBDA l : l \in DOMAIN GetLabelCentroids(labeled))

\* the mapped centroid scores of message m
MappedScores(m) ==
    [l \in SeqToSet(Mapped) |->
        CentroidScore(MsgEmbed(Mail[m]), GetLabelCentroids(labeled)[l])]

\* the best mapped score of message m is exactly the threshold
BestAt(m, threshold) ==
    /\ Mapped # <<>>
    /\ LET x == MappedScores(m)[FirstMax(Mapped, MappedScores(m))]
       IN  /\ RatioGE(x.num, x.den2, 2 * threshold - 100, 10000)
           /\ RatioGE(2 * threshold - 100, 10000, x.num, x.den2)

\* the best mapped score of message m is below the threshold
BestBelow(m, threshold) ==
    /\ Mapped # <<>>
    /\ LET x == MappedScores(m)[FirstMax(Mapped, MappedScores(m))]
       IN  ~RatioGE(x.num, x.den2, 2 * threshold - 100, 10000)

\* C16: in each of the three resolvers a message whose best mapped centroid
\* score equals the threshold is resolved by the centroid tier, with the
\* best label and no call of a later tier (in the rejection-aware resolver,
\* when that label is not among the rejected suggestions); a message whose
\* best score is below the threshold, be it by one hundredth, is not
\* resolved by the centroid tier and goes on to the next tier.
C16_ThresholdInclusive ==
    /\ \A o \in Outcomes :
          /\ BestAt(o.id, last.threshold) =>
                /\ o.out.suggestion.source \in {"centroid", "embedding"}
                /\ o.out.suggestion.suggested_label
                      = FirstMax(Mapped, MappedScores(o.id))
                /\ ~o.out.similar_called /\ ~o.out.llm_called
          /\ BestBelow(o.id, last.threshold) =>
                /\ o.out.suggestion.source \notin {"centroid", "embedding"}
                /\ o.out.similar_called
    /\ Answered =>
          /\ (/\ BestAt(last.id, last.threshold)
              /\ FirstMax(Mapped, MappedScores(last.id)) \notin last.rejected_suggestions)
                => /\ last.out.suggestion.source = "centroid"
                   /\ last.out.suggestion.suggested_label
                         = FirstMax(Mapped, MappedScores(last.id))
                   /\ last.out.llm_calls = 0
          /\ BestBelow(last.id, last.threshold) =>
                last.out.suggestion.source # "centroid"

\* C16's case: a pass of node_classify resolved at the centroid tier a
\* message whose best mapped score equals the threshold of the pass.
C16_Witness ==
    /\ last.op = "classify"
    /\ \E o \in Outcomes :
          /\ BestAt(o.id, last.threshold)
          /\ o.out.suggestion.source = "centroid"

\* ... and the cases of the other resolvers and of the score one hundredth
\* below the threshold
C16_BelowCase ==
    \E o \in Outcomes :
        /\ BestBelow(o.id, last.threshold) /\ BestAt(o.id, last.threshold - 1)
        /\ o.out.similar_called

C16_SingleCase ==
    /\ last.op = "classify_single"
    /\ \E o \in Outcomes : BestAt(o.id, last.threshold)

C16_DifferentCase ==
    /\ Answered
    /\ BestAt(last.id, last.threshold)
    /\ last.out.suggestion.source = "centroid"

----------------------------------------------------------------------------
(* Zero vectors at the centroid tier, under SpecFlow *)

\* C17: at the default threshold the centroid tier returns no label for a
\* message whose embedding is the zero vector, and never a label whose
\* centroid is the zero vector.
C17_ZeroVectorNoSignal ==
    \A o \in Outcomes :
        (last.threshold = DefaultThreshold /\ o.out.suggestion.source = "centroid")
            => /\ MsgEmbed(Mail[o.id]) # Zero
               /\ GetLabelCentroids(labeled)[o.out.suggestion.suggested_label] # Zero

----------------------------------------------------------------------------
(* The majority tier and the provider's labels, under SpecStale *)

\* C18: when the plurality label of the similar examples is not among the
\* provider's labels the majority tier gives nothing and the generative
\* collaborator is called; every suggestion of source "memory_similar"
\* bears a label of the provider's list.
C18_MajorityKnownToProvider ==
    \A o \in Outcomes :
        /\ (o.out.similar_called /\ MajorityFor(o.id) \notin SeqToSet(gmail_labels))
              => /\ o.out.suggestion.source # "memory_similar"
                 /\ o.out.llm_called
        /\ o.out.suggestion.source = "memory_similar"
              => o.out.suggestion.suggested_label \in SeqToSet(gmail_labels)

\* C18's case: a pass met a message whose similar examples bear in majority
\* a label the provider does not have, and went on to the generative tier.
C18_Witness ==
    /\ last.op = "classify"
    /\ \E o \in Outcomes :
          /\ o.out.similar_called
          /\ Truthy(MajorityFor(o.id))
          /\ MajorityFor(o.id) \notin SeqToSet(gmail_labels)
          /\ o.out.suggestion.source = "llm"

\* ... and a message resolved by the majority tier
C18_MajorityCase ==
    \E o \in Outcomes : o.out.suggestion.source = "memory_similar"

----------------------------------------------------------------------------
(* Failures during a batch, under SpecBatch *)

\* a batch has just been classified, by node_classify or by the streaming
\* generator
Batched == last.op \in {"classify", "stream"} /\ "replies" \in DOMAIN last

\* the positions of the batch at which the generative collaborator was
\* called and gave no label: it raised, answered nothing, or answered
\* something no label can be extracted from
Unanswered ==
    IF Batched
    THEN {n \in DOMAIN last.trace :
            /\ last.trace[n].llm_called
            /\ last.replies[n].kind \in {"raise", "empty", "garbage"}}
    ELSE {}

\* C19: a message for which the generative call raises, returns empty
\* content or yields no extractable label gets no suggestion, is not taken
\* up again in the pass, and does not end the pass: the message after it is
\* classified, and the pass itself does not fail on it.
C19_GenerativeFailureSkips ==
    \A n \in Unanswered :
        /\ last.trace[n].suggestion = NoSuggestion
        /\ ~last.trace[n].raised
        /\ \A k \in DOMAIN last.suggestions : last.suggestions[k].id # last.batch[n]
        /\ Len(last.trace) <= Len(last.batch)
        /\ n < Len(last.batch) => (n + 1) \in DOMAIN last.trace
        /\ ~last.raised => Len(last.trace) = Len(last.batch)

\* C19's case: node_classify met a message the generative collaborator gave
\* no label for, and suggested a label for the message after it.
C19_Witness ==
    /\ last.op = "classify"
    /\ \E n \in Unanswered :
          /\ n < Len(last.batch)
          /\ last.trace[n + 1].suggestion # NoSuggestion

\* ... and the same in the streaming generator, for each kind of reply
C19_StreamCase ==
    /\ last.op = "stream"
    /\ \E n \in Unanswered :
          /\ n < Len(last.batch)
          /\ last.trace[n + 1].suggestion # NoSuggestion
          /\ last.replies[n].kind = "garbage"

\* C20: a failure of the store during a classification pass reaches the
\* caller of the pass: the pass raises, and the message is not merely left
\* without a suggestion.
StoreFailed ==
    /\ last.op \in {"classify", "stream"}
    /\ \E n \in DOMAIN last.trace : last.trace[n].raised

C20_StoreFailureSurfaced == StoreFailed => last.raised

----------------------------------------------------------------------------
(* The source of a suggestion, under SpecClassify *)

\* C21: every suggestion a classification entry point returns has its
\* source among "centroid", "memory_similar" and "llm".
C21_SourceVocabulary ==
    /\ \A o \in Outcomes :
          o.out.suggestion # NoSuggestion
             => o.out.suggestion.source \in {"centroid", "memory_similar", "llm"}
    /\ Answered =>
          (last.out.suggestion # NoSuggestion
             => last.out.suggestion.source \in {"centroid", "memory_similar", "llm"})

----------------------------------------------------------------------------
(* Learning and the provider, under SpecFlow *)

\* C22: an approved message whose label was not applied at the provider
\* (apply_label returned false) gets no accepted row: the rows the store
\* holds for it after the run are those it held before, or are not accepted.
C22_StoredOnlyIfApplied ==
    last.op = "apply" =>
        \A n \in DOMAIN last.apply_calls :
            ~last.apply_calls[n].ok =>
                \A r \in RowsOf(labeled, last.apply_calls[n].id) :
                    r \in SeqToSet(last.before_labeled) \/ ~IsAccepted(r)

----------------------------------------------------------------------------
(* The rejected-label query, under SpecLog *)

\* C23: get_rejected_labels_for_similar_emails returns the set of the
\* rejected_label values of the records, of any message id, whose cosine
\* similarity to the query message is at or above the threshold, and the
\* empty set when there is none.
C23_RejectedQueryExact ==
    last.op = "get_rejected" =>
        /\ ~last.out.raised
        /\ last.out.value =
              {rejected[k].rejected_label :
                 k \in {j \in DOMAIN rejected :
                          CosineAtLeast(MsgEmbed(Mail[last.id]), RejectedEmbed(rejected[j]),
                                        SimilarityThreshold)}}

----------------------------------------------------------------------------
(* Centroids, under SpecCentroids *)

\* the sum, over the rows of the store bearing label l, of the row's
\* embedding taken 5 times when the row is accepted and once when it is not
RECURSIVE SumOver(_, _)
SumOver(S, l) ==
    IF S = {}
    THEN Zero
    ELSE LET i == CHOOSE j \in S : TRUE
             rest == SumOver(S \ {i}, l)
             e == RowEmbed(labeled[i])
             w == IF labeled[i].accepted THEN 5 ELSE 1
         IN  <<rest[1] + w * e[1], rest[2] + w * e[2]>>

Bearing(l) == {i \in DOMAIN labeled : labeled[i].applied_label = l}

\* u is v scaled by a positive factor (or both are the zero vector)
Along(u, v) ==
    /\ u[1] * v[2] = u[2] * v[1]
    /\ IF v = Zero THEN u = Zero ELSE Dot(u, v) > 0

C24_EmptyCase == last.op = "centroids" /\ labeled = <<>> /\ last.out = <<>>

----------------------------------------------------------------------------
(* The fallback embedding, under SpecFallback *)

\* C25: the fallback embedding of a text is the same in two process runs.
C25_FallbackReproducible ==
    (last.op = "fallback_embed" /\ last.before.id = last.id)
        => last.out = last.before.out

----------------------------------------------------------------------------
(* The generative tier, under SpecBatch *)

\* C26: with no row and no rejected record in the store, a message is
\* resolved by neither the centroid tier nor the majority tier and the
\* generative collaborator is called for it; a reply that is a JSON object
\* with label L gives the suggestion L with source "llm".
C26_EmptyStoreGenerative ==
    (Batched /\ labeled = <<>> /\ rejected = <<>>) =>
        \A n \in DOMAIN last.trace :
            ~last.trace[n].raised =>
                /\ last.trace[n].llm_called
                /\ last.trace[n].suggestion.source \in {"llm", "none"}
                /\ last.replies[n].kind = "json" =>
                      /\ last.trace[n].suggestion.suggested_label = last.replies[n].label
                      /\ last.trace[n].suggestion.source = "llm"
                      /\ last.trace[n].suggestion.id = last.batch[n]

\* C26's case: node_classify on an empty store, the generative collaborator
\* answering with a JSON object for one message.
C26_Witness ==
    /\ last.op = "classify" /\ Batched
    /\ labeled = <<>> /\ rejected = <<>>
    /\ \E n \in DOMAIN last.trace :
          /\ last.replies[n].kind = "json"
          /\ last.trace[n].suggestion.source = "llm"

----------------------------------------------------------------------------
(* The tally of the majority tier, under SpecMajority *)

\* the examples the majority tier retrieves for message m
ExamplesFor(m) ==
    LET hits == Similar(index, ids, MsgEmbed(Mail[m]), K)
    IN  GetMessagesByIds(labeled, [n \in 1..Len(hits) |-> hits[n].message_id])

\* the number of examples retrieved for m that bear label l
Tally(m, l) ==
    Cardinality({i \in DOMAIN ExamplesFor(m) : ExamplesFor(m)[i].applied_label = l})

\* l alone has the highest tally for m
Plurality(m, l) ==
    /\ Tally(m, l) > 0
    /\ \A i \in DOMAIN ExamplesFor(m) :
          ExamplesFor(m)[i].applied_label # l => Tally(m, ExamplesFor(m)[i].applied_label) < Tally(m, l)

\* C27: the label the majority tier returns has the highest tally among
\* the applied labels of the at most 5 examples retrieved, and is a label
\* of the provider; when the tier is reached and a label of the provider
\* alone has the highest tally, that label is returned with source
\* "memory_similar".
C27_MajorityIsPlurality ==
    \A o \in Outcomes :
        /\ o.out.suggestion.source = "memory_similar" =>
              /\ Len(ExamplesFor(o.id)) <= K
              /\ o.out.suggestion.suggested_label \in SeqToSet(gmail_labels)
              /\ Tally(o.id, o.out.suggestion.suggested_label) > 0
              /\ \A i \in DOMAIN ExamplesFor(o.id) :
                    Tally(o.id, ExamplesFor(o.id)[i].applied_label)
                       <= Tally(o.id, o.out.suggestion.suggested_label)
        /\ \A l \in SeqToSet(gmail_labels) :
              (o.out.similar_called /\ Plurality(o.id, l)) =>
                  /\ o.out.suggestion.source = "memory_similar"
                  /\ o.out.suggestion.suggested_label = l

\* C27's case: a message resolved by the majority tier with the label two
\* of its three examples bear, the first example bearing the other label.
C27_Witness ==
    \E o \in Outcomes :
        /\ o.out.suggestion.source = "memory_similar"
        /\ Len(ExamplesFor(o.id)) = 3
        /\ Tally(o.id, o.out.suggestion.suggested_label) = 2
        /\ ExamplesFor(o.id)[1].applied_label # o.out.suggestion.suggested_label

----------------------------------------------------------------------------
(* Parsing the generative reply, under SpecParse *)

\* the label a reply carries: the label of a JSON object or of a `label:`
\* line, when it is not empty
Carried(reply) ==
    IF reply.kind \in {"json", "line"} /\ Truthy(reply.label) THEN reply.label ELSE None

\* C28: a suggestion of the generative tier bears the label the reply
\* carries; when the reply carries none there is no suggestion, and no
\* label is put in its place.
C28_GenerativeLabelExtracted ==
    /\ Batched =>
          \A n \in DOMAIN last.trace :
              /\ last.trace[n].suggestion.source = "llm" =>
                    /\ last.trace[n].llm_called
                    /\ Carried(last.replies[n]) # None
                    /\ last.trace[n].suggestion.suggested_label = Carried(last.replies[n])
              /\ (last.trace[n].llm_called /\ Carried(last.replies[n]) = None)
                    => last.trace[n].suggestion = NoSuggestion
    /\ last.op = "context" =>
          /\ last.out.suggestion # NoSuggestion =>
                /\ last.out.llm_calls = 1
                /\ Carried(last.reply) # None
                /\ last.out.suggestion.suggested_label = Carried(last.reply)
          /\ Carried(last.reply) = None => last.out.suggestion = NoSuggestion

\* C28's case: in one pass of node_classify a reply with a `label:` line
\* gave a suggestion and a reply without a label gave none.
C28_Witness ==
    /\ last.op = "classify" /\ Batched
    /\ \E n, k \in DOMAIN last.trace :
          /\ last.replies[n].kind = "line"
          /\ last.trace[n].suggestion.source = "llm"
          /\ last.trace[k].llm_called
          /\ Carried(last.replies[k]) = None
          /\ last.trace[k].suggestion = NoSuggestion

\* ... and a suggestion of the context-aware resolver
C28_ContextCase ==
    last.op = "context" /\ last.out.suggestion.source = "llm_with_context"

----------------------------------------------------------------------------
(* The frame of store_rejected_label, under SpecLog *)

\* C29: store_rejected_label appends exactly one record to the log, for the
\* message and label it was given, and leaves the rows of labeled_emails
\* and the similarity index as they were.
C29_RejectTouchesLogOnly ==
    [][last'.op = "reject" =>
          /\ Len(rejected') = Len(rejected) + 1
          /\ SubSeq(rejected', 1, Len(rejected)) = rejected
          /\ rejected'[Len(rejected')].message_id \in FlowIds
          /\ rejected'[Len(rejected')].rejected_label \in StoreLabels
          /\ labeled' = labeled
          /\ index' = index
          /\ ids' = ids]_vars

\* C29's case: a record was just appended to a log that held one, beside a
\* store with a row and an indexed embedding.
C29_Witness ==
    /\ last.op = "reject"
    /\ Len(rejected) = 2
    /\ labeled # <<>>
    /\ index # <<>>

----------------------------------------------------------------------------
(* Determinism of the tiers, under SpecRepeat *)

\* the labels of the provider whose mapped centroid score for message m no
\* other mapped score exceeds
TopScored(m) ==
    {l \in SeqToSet(Mapped) :
        \A k \in SeqToSet(Mapped) : ScoreGE(MappedScores(m)[l], MappedScores(m)[k])}

\* the labels of highest tally among the examples retrieved for m
TopTallied(m) ==
    {ExamplesFor(m)[i].applied_label : i \in
        {j \in DOMAIN ExamplesFor(m) :
            \A k \in DOMAIN ExamplesFor(m) :
                Tally(m, ExamplesFor(m)[k].applied_label)
                   <= Tally(m, ExamplesFor(m)[j].applied_label)}}

C30_TallyCase ==
    /\ last.op = "repeat" /\ last.again
    /\ Cardinality(TopTallied(last.id)) = 2
    /\ last.out.suggestion.source = "memory_similar"

----------------------------------------------------------------------------
(* The provider's labels, under SpecEnsure *)

\* C31: ensure_label called again with the same name returns the id it
\* returned before, and the label is created at the provider at most once.
C31_EnsureIdempotent ==
    (last.op = "ensure" /\ last.again) =>
        /\ last.id = last.before_id
        /\ ~(last.created /\ last.before_created)

\* C32: after a store is closed and a new one is opened over the same data
\* directory with no write in between, similar() returns for every query the
\* (message_id, score) list it returned before the close.
C32_ReopenRefines ==
    last.op = "reopen" => last.after = last.before

\* the decision given for the message of an apply_label call
DecidedFor(call) == DecisionFor(last.approvals, call.id)

\* C33: apply_label is invoked for a message only if the decision for that
\* message has approved = true and a non-empty final label, in
\* node_apply_and_update and in the /api/suggestions/apply endpoint.
C33_AppliedOnlyIfDecided ==
    last.op \in {"apply", "api_apply"} =>
        \A n \in DOMAIN last.apply_calls :
            /\ DecidedFor(last.apply_calls[n]).approved
            /\ Truthy(DecidedFor(last.apply_calls[n]).final_label)

\* the part of C33 the code keeps: a message with no decision or with a
\* rejected decision never has a label applied
C33_NeverUnapproved ==
    last.op \in {"apply", "api_apply"} =>
        \A n \in DOMAIN last.apply_calls :
            /\ last.apply_calls[n].id \in DOMAIN last.approvals
            /\ last.approvals[last.apply_calls[n].id].approved

\* a rejected decision with a label went through either path
C33_RejectedCase ==
    /\ last.op \in {"apply", "api_apply"}
    /\ \E m \in DOMAIN last.approvals :
          ~last.approvals[m].approved /\ last.approvals[m].final_label = "L1"
    /\ last.apply_calls # <<>>

\* the label and the source of each suggestion of a pass
LabelsAndSources(sugs) ==
    [n \in DOMAIN sugs |-> <<sugs[n].suggested_label, sugs[n].source>>]

\* C34: for the same message, store contents, provider label list,
\* threshold and generative response, the streaming / single-message path
\* and node_classify return the same suggested label and the same source,
\* or both return no suggestion.
C34_PathsAgree ==
    last.op = "both_paths" =>
        /\ ~last.node.raised
        /\ LabelsAndSources(last.node.suggestions) = LabelsAndSources(last.stream.suggestions)

\* C35: the rejection-aware resolver calls the generative collaborator at
\* most twice per invocation, and the second call is made only when the
\* first response's label is in the caller-supplied rejected set.
C35_AtMostOneRetry ==
    last.op = "different" =>
        /\ last.out.llm_calls <= 2
        /\ last.out.llm_calls = 2 =>
              /\ ParsesAsJson(last.reply)
              /\ last.reply.label \in last.rejected_suggestions

\* the first response named a rejected label and the resolver asked again
C35_Witness ==
    /\ last.op = "different"
    /\ last.reply = Reply("json", "L1")
    /\ "L1" \in last.rejected_suggestions
    /\ last.retry = Reply("json", "L3")
    /\ last.out.llm_calls = 2
    /\ last.out.suggestion.suggested_label = "L3"

\* the store as it is now
StoreNow == [labeled |-> labeled, rejected |-> rejected, index |-> index, ids |-> ids]

\* C36: node_classify, _classify_single_email and
\* _classify_single_email_with_rejected leave every row of labeled_emails,
\* every row of rejected_labels and the similarity index as they found them.
C36_ClassificationReadOnly ==
    last.op = "resolve" => StoreNow = last.before

\* each resolver gave a suggestion over a store that holds rows, a rejected
\* label and an index
C36_ResolverRan(resolver) ==
    /\ last.op = "resolve"
    /\ last.resolver = resolver
    /\ labeled # <<>>
    /\ index # <<>>

C36_Witness ==
    /\ C36_ResolverRan("_classify_single_email_with_rejected")
    /\ rejected # <<>>
    /\ last.out.suggestion.suggested_label = "L2"

C36_NodeCase == C36_ResolverRan("node_classify") /\ last.out.suggestions # <<>>

C36_SingleCase ==
    C36_ResolverRan("_classify_single_email") /\ last.out.suggestion # NoSuggestion

\* the messages of the suggestions node_apply_and_update was given
IngestedIds == {s.id : s \in Ingested}

\* the messages of the rows of the rejected-label log
RejectedIds(rej) == {rej[n].message_id : n \in DOMAIN rej}

\* C37: node_apply_and_update handles every suggestion it is given, whatever
\* failed for the others: each message gets its processed row, each approved
\* one its apply_label call, each rejected one its rejected-label record;
\* and the rows of every other message are left as they were.
C37_IngestedIndependently ==
    (last.op = "apply") =>
        /\ \A n \in DOMAIN last.suggestions :
              LET s == last.suggestions[n]
                  d == DecisionFor(last.approvals, s.id)
                  final == FinalLabel(last.approvals, s)
              IN  /\ \E r \in RowsOf(labeled, s.id) : r.accepted = d.approved
                  /\ (d.approved /\ Truthy(final)) =>
                        \E k \in DOMAIN last.apply_calls : last.apply_calls[k].id = s.id
                  /\ (~d.approved /\ Truthy(final)) =>
                        s.id \in RejectedIds(SubSeq(rejected, Len(last.before_rejected) + 1,
                                                    Len(rejected)))
        /\ \A m \in MsgIds \ IngestedIds :
              RowsOf(labeled, m) = RowsOf(last.before_labeled, m)
        /\ SubSeq(rejected, 1, Len(last.before_rejected)) = last.before_rejected

\* two approved suggestions, the provider failing on apply_label: the
\* second message is handled all the same
C37_Witness ==
    /\ last.op = "apply"
    /\ Len(last.suggestions) = 2
    /\ Len(last.apply_calls) = 2
    /\ ~last.apply_calls[1].ok
    /\ RowsOf(labeled, last.suggestions[2].id) # {}
    /\ RowsOf(last.before_labeled, last.suggestions[2].id) = {}

\* two rejected suggestions of a classification, both logged
C37_RejectedCase ==
    /\ last.op = "apply"
    /\ last.mode = "full"
    /\ Len(last.suggestions) = 2
    /\ Len(rejected) = Len(last.before_rejected) + 2

\* the approved decisions of the request that name a label
ApprovedWithLabel ==
    {m \in DOMAIN last.approvals :
        last.approvals[m].approved /\ Truthy(last.approvals[m].final_label)}

\* C38: when the mail-provider calls succeed, /api/suggestions/apply answers
\* with applied_count equal to the number of approved decisions with a
\* non-empty final_label, and each of those messages has had its label
\* applied and has been marked processed.
C38_EveryApprovedApplied ==
    (last.op = "api_apply" /\ last.net = Net(TRUE, TRUE, TRUE)) =>
        /\ last.status = 200
        /\ last.applied_count = Cardinality(ApprovedWithLabel)
        /\ \A m \in ApprovedWithLabel :
              /\ \E k \in DOMAIN last.apply_calls :
                    last.apply_calls[k].id = m /\ last.apply_calls[k].ok
              /\ RowsOf(labeled, m) =
                    {Row(m, None, None, None, last.approvals[m].final_label, TRUE)}

\* C39: every call of get_unread_messages, get_message_by_id, apply_label
\* and ensure_label stops retrying by its own decision when the error
\* persists after re-authentication: the retries never go on until the
\* interpreter runs out of stack.
C39_RetriesBounded ==
    last.op = "gmail" => ~last.stack_exhausted

\* what can also end a call: authenticate() raising inside the except block,
\* which leaves the call with an exception in place of the fallback
C39_ReauthRaises ==
    /\ last.op = "gmail"
    /\ last.status = "raised"
    /\ ~last.stack_exhausted

\* the part of C39 the code keeps: one re-authentication that cures the
\* error is followed by one retry that returns the value
C39_RetryAfterReauth ==
    /\ last.op = "gmail"
    /\ last.depth = 2
    /\ last.status = "returned"
    /\ last.result = "value"

====
